---------------------------- MODULE Spec2Model ----------------------------
(***************************************************************************)
(* Model of the pattern evaluation scripts of inspector-cli:               *)
(*   scripts/evaluation/evaluate-consistency.py   (identity key, naming    *)
(*                                                 consistency, report)    *)
(*   scripts/evaluation/evaluate-completeness.py  (completeness score and  *)
(*                                                 report)                 *)
(*   scripts/evaluate-phase2-completeness.py      (phase 2 completeness)   *)
(*   scripts/evaluation/verify-patterns.py        (evidence verification)  *)
(*                                                                         *)
(* Python values are modelled as follows.                                  *)
(*   str    -> TLA+ string (\o is +, SubSeq is slicing, Len is len)        *)
(*   dict   -> record / function; a key that is absent is absent from the  *)
(*             DOMAIN, so dict.get(k, default) is Get(d, k, default)       *)
(*   an insertion-ordered dict that is iterated -> [order, ...] with the   *)
(*             sequence of keys in insertion order                         *)
(*   list   -> sequence;  set -> set;  list(a_set) -> the set (its order   *)
(*             is unspecified in Python)                                   *)
(*   float  -> exact rational [num, den] in lowest terms                   *)
(***************************************************************************)
EXTENDS Integers, Sequences, FiniteSets, TLC

VARIABLES
    pc,                 \* position of the evaluation being modelled
    occ_a, occ_b,       \* two pattern occurrences handed to the fingerprinter
    keys,               \* <<key of occ_a, key of occ_b>> once computed
    runs,               \* the runs of one site (argument of calculate_naming_consistency)
    naming_result,      \* its return value
    url_results,        \* load_analysis_results: runs grouped by URL
    files_loaded,       \* number of *.json files the loader has visited
    focus_phase2,       \* argument of generate_consistency_report
    report,             \* the consistency report
    exit_code,          \* value returned by main of evaluate-consistency.py
    discovered,         \* calculate_completeness: set of discovered names
    required,           \* calculate_completeness: list of required names
    completeness_result,\* its return value
    phase1_results,     \* load_phase1_results: the site results of one CMS
    reference_required, \* load_reference_patterns: the required names
    completeness_report,\* the completeness report
    evaluation,         \* evaluate_completeness of evaluate-phase2-completeness.py
    evidence,           \* verify_pattern: the collected data of one site
    claimed_pattern,    \* verify_pattern: the pattern record
    verify_outcome,     \* what the call of verify_pattern did
    data_files,         \* analyze_pattern_accuracy: the *.json files of data_dir
    accuracy_results    \* its return value

vars == <<pc, occ_a, occ_b, keys, runs, naming_result, url_results,
          files_loaded, focus_phase2, report, exit_code, discovered,
          required, completeness_result, phase1_results, reference_required,
          completeness_report, evaluation, evidence, claimed_pattern,
          verify_outcome, data_files, accuracy_results>>

fpVars     == <<occ_a, occ_b, keys>>
namingVars == <<runs, naming_result>>
reportVars == <<url_results, files_loaded, focus_phase2, report, exit_code>>
compVars   == <<discovered, required, completeness_result>>
compReportVars == <<phase1_results, reference_required, completeness_report, evaluation>>
verifyVars == <<evidence, claimed_pattern, verify_outcome>>
accuracyVars == <<data_files, accuracy_results>>

(***************************************************************************)
(* Generic helpers                                                         *)
(***************************************************************************)

\* dict.get(key, default)
Get(d, key, default) == IF key \in DOMAIN d THEN d[key] ELSE default

\* s[:n]
Prefix(s, n) == SubSeq(s, 1, IF Len(s) < n THEN Len(s) ELSE n)

\* sep.join(parts)
RECURSIVE Join(_, _)
Join(parts, sep) ==
    IF parts = <<>> THEN ""
    ELSE IF Len(parts) = 1 THEN parts[1]
    ELSE parts[1] \o sep \o Join(Tail(parts), sep)

RECURSIVE Repeat(_, _)
Repeat(s, n) == IF n = 0 THEN "" ELSE s \o Repeat(s, n - 1)

RECURSIVE GCD(_, _)
GCD(a, b) == IF b = 0 THEN a ELSE GCD(b, a % b)

\* the rational n/d (d > 0, n >= 0) in lowest terms
Rat(n, d) == LET g == GCD(n, d) IN [num |-> n \div g, den |-> d \div g]
RatAdd(x, y) == Rat(x.num * y.den + y.num * x.den, x.den * y.den)
RatDivInt(x, k) == Rat(x.num, x.den * k)
RatLeq(x, y) == x.num * y.den <= y.num * x.den
RatGeqInt(x, k) == x.num >= k * x.den

SeqToSet(s) == {s[i] : i \in DOMAIN s}

\* the concatenation of a sequence of sequences
RECURSIVE Concat(_)
Concat(ss) == IF ss = <<>> THEN <<>> ELSE Head(ss) \o Concat(Tail(ss))

(***************************************************************************)
(* evaluate-consistency.py: normalize_pattern_for_comparison               *)
(***************************************************************************)

IdentityValueLen == 100
ExampleValueLen == 50

\* hashlib.md5(s.encode()).hexdigest(), the digest taken as injective: the
\* digest of s is represented by s tagged as a digest.
md5_hexdigest(s) == <<"md5", s>>

\* the keys of the attributes dict in sorted() order
SortedAttributeKeys == <<"attribute", "location", "selector", "type", "value">>

pattern_attributes(pattern) ==
    [type      |-> Get(pattern, "type", ""),
     location  |-> Get(pattern, "location", ""),
     value     |-> Prefix(Get(pattern, "value", ""), IdentityValueLen),
     selector  |-> Get(pattern, "selector", ""),
     attribute |-> Get(pattern, "attribute", "")]

\* f"{k}:{v}" for k, v in sorted(attributes.items()) if v
RECURSIVE attr_pairs(_, _)
attr_pairs(attributes, ks) ==
    IF ks = <<>> THEN <<>>
    ELSE LET k == Head(ks)
             rest == attr_pairs(attributes, Tail(ks))
         IN IF attributes[k] # "" THEN <<k \o ":" \o attributes[k]>> \o rest
            ELSE rest

\* the identity string with the name among the attributes
attr_string_with_name(pattern) ==
    Join(attr_pairs(pattern_attributes(pattern), SortedAttributeKeys)
           \o <<"name:" \o Get(pattern, "name", "unnamed")>>, "|")

attr_string(pattern) ==
    Join(attr_pairs(pattern_attributes(pattern), SortedAttributeKeys), "|")

normalize_pattern_for_comparison(pattern) ==
    md5_hexdigest(attr_string(pattern))

(***************************************************************************)
(* Inputs of the fingerprint specification                                 *)
(***************************************************************************)

LongValueA == Repeat("a", IdentityValueLen) \o "a"
LongValueB == Repeat("a", IdentityValueLen) \o "b"

FpTypes     == {"", "meta"}
FpLocations == {"", "x", "x|selector:y"}
FpValues    == {"", "v", LongValueA, LongValueB}
FpSelectors == {"", "y"}

FpOccurrences ==
    {[type |-> t, location |-> l, value |-> v, selector |-> s, attribute |-> ""] :
        t \in FpTypes, l \in FpLocations, v \in FpValues, s \in FpSelectors}
    \cup {[name |-> "a"], [name |-> "b", type |-> "meta"]}

IdleFp     == occ_a = [name |-> "a"] /\ occ_b = [name |-> "a"] /\ keys = <<>>
IdleNaming == runs = <<>> /\ naming_result = <<>>
IdleReport == url_results = [order |-> <<>>, runs |-> <<>>] /\ files_loaded = 0
              /\ focus_phase2 = FALSE /\ report = <<>> /\ exit_code = -1
IdleComp   == discovered = {} /\ required = <<>> /\ completeness_result = <<>>
IdleCompReport == phase1_results = <<>> /\ reference_required = <<>>
                  /\ completeness_report = <<>> /\ evaluation = <<>>
IdleVerify == evidence = <<>> /\ claimed_pattern = <<>> /\ verify_outcome = <<>>
IdleAccuracy == data_files = <<>> /\ accuracy_results = <<>>
IdleLater  == IdleCompReport /\ IdleVerify /\ IdleAccuracy

InitFp ==
    /\ pc = "input"
    /\ occ_a \in FpOccurrences
    /\ occ_b \in FpOccurrences
    /\ keys = <<>>
    /\ IdleNaming /\ IdleReport /\ IdleComp /\ IdleLater

Fingerprint ==
    /\ pc = "input"
    /\ keys' = <<normalize_pattern_for_comparison(occ_a),
                 normalize_pattern_for_comparison(occ_b)>>
    /\ pc' = "done"
    /\ UNCHANGED <<occ_a, occ_b, namingVars, reportVars, compVars,
                 compReportVars, verifyVars, accuracyVars>>

NextFp == Fingerprint

SpecFp == InitFp /\ [][NextFp]_vars

\* the (type, location, value truncated to 100 characters, selector,
\* attribute) tuple of an occurrence
IdentityTuple(p) ==
    <<Get(p, "type", ""), Get(p, "location", ""),
      Prefix(Get(p, "value", ""), 100),
      Get(p, "selector", ""), Get(p, "attribute", "")>>

\* C1: two occurrences get the same key if and only if their (type,
\* location, truncated value, selector, attribute) tuples are equal.
C1_KeyEqualIffTupleEqual ==
    pc = "done" =>
        ((keys[1] = keys[2]) <=> (IdentityTuple(occ_a) = IdentityTuple(occ_b)))


(***************************************************************************)
(* evaluate-consistency.py: calculate_naming_consistency                   *)
(***************************************************************************)

\* for run in runs: for pattern in run['patterns']  -- the occurrences in
\* the order the two nested loops visit them
all_run_patterns_skip_first(rs) ==
    Concat([i \in 1..(Len(rs) - 1) |-> rs[i + 1].patterns])

all_run_patterns(rs) == Concat([i \in DOMAIN rs |-> rs[i].patterns])

pattern_name_of(pattern) == Get(pattern, "name", "unnamed")

pattern_details_of(pattern) ==
    [type          |-> Get(pattern, "type", ""),
     location      |-> Get(pattern, "location", ""),
     example_value |-> Prefix(Get(pattern, "value", ""), ExampleValueLen)]

\* the two dicts before the loop
EmptyGroups == [order |-> <<>>, names |-> <<>>, details |-> <<>>]

\* body of the loop: pattern_names_by_identity[pattern_id].add(name) and
\* pattern_details[pattern_id] set on first sight; order is the insertion
\* order of pattern_names_by_identity
add_pattern(acc, pattern, pattern_id, pattern_name) ==
    LET seen == pattern_id \in DOMAIN acc.names
        ids  == DOMAIN acc.names \cup {pattern_id}
    IN [order   |-> IF seen THEN acc.order ELSE Append(acc.order, pattern_id),
        names   |-> [k \in ids |->
                       IF k = pattern_id
                       THEN (IF seen THEN acc.names[k] ELSE {}) \cup {pattern_name}
                       ELSE acc.names[k]],
        details |-> [k \in ids |->
                       IF k \in DOMAIN acc.details THEN acc.details[k]
                       ELSE pattern_details_of(pattern)]]

\* the loop over the occurrences
RECURSIVE group_patterns(_, _)
group_patterns(pats, acc) ==
    IF pats = <<>> THEN acc
    ELSE group_patterns(Tail(pats),
                        add_pattern(acc, Head(pats),
                                    normalize_pattern_for_comparison(Head(pats)),
                                    pattern_name_of(Head(pats))))

\* if len(names) == 1
is_consistent(names) == Cardinality(names) = 1

consistency_score_floor_division(consistent_patterns, total_patterns) ==
    IF total_patterns > 0
    THEN Rat(100 * (consistent_patterns \div total_patterns), 1)
    ELSE Rat(100, 1)

\* the score with 0 for a site without identities
consistency_score_zero_when_empty(consistent_patterns, total_patterns) ==
    IF total_patterns > 0 THEN Rat(100 * consistent_patterns, total_patterns)
    ELSE Rat(0, 1)

\* (consistent_patterns / total_patterns * 100) if total_patterns > 0 else 100
consistency_score_of(consistent_patterns, total_patterns) ==
    IF total_patterns > 0 THEN Rat(100 * consistent_patterns, total_patterns)
    ELSE Rat(100, 1)

\* sum(1 for run in runs for p in run['patterns']
\*     if normalize_pattern_for_comparison(p) == pattern_id)
pattern_count(rs, pattern_id) ==
    LET ps == all_run_patterns(rs)
    IN Cardinality({i \in DOMAIN ps :
                      normalize_pattern_for_comparison(ps[i]) = pattern_id})

\* if pattern_count >= len(runs)
counts_as_in_all_runs(count, nruns) == count >= nruns

\* the identities for which an entry is appended to patterns_in_all_runs
all_runs_ids(rs, groups) ==
    SelectSeq(groups.order,
              LAMBDA id : counts_as_in_all_runs(pattern_count(rs, id), Len(rs)))

\* Everything calculate_naming_consistency computes except the entries of
\* patterns_in_all_runs, which are list(names)[0] of a Python set and so
\* chosen by naming_return_values.  total_patterns, consistent_patterns and
\* names_by_identity (pattern_names_by_identity) are the locals at the
\* return statement.
\* the part of the function after the grouping loop, groups being the two
\* dicts the loop has built
consistency_of_groups(rs, groups) ==
    LET total  == Len(groups.order)
        consistent_ids   == SelectSeq(groups.order,
                              LAMBDA id : is_consistent(groups.names[id]))
        inconsistent_ids == SelectSeq(groups.order,
                              LAMBDA id : ~is_consistent(groups.names[id]))
    IN [consistency_score     |-> consistency_score_of(Len(consistent_ids), total),
        inconsistent_patterns |->
            [order |-> inconsistent_ids,
             items |-> [id \in SeqToSet(inconsistent_ids) |->
                          [names   |-> groups.names[id],
                           details |-> groups.details[id]]]],
        all_runs_ids          |-> all_runs_ids(rs, groups),
        names_by_identity     |-> groups.names,
        total_patterns        |-> total,
        consistent_patterns   |-> Len(consistent_ids)]

naming_consistency(rs) ==
    IF Len(rs) < 2
    THEN [consistency_score     |-> Rat(100, 1),
          inconsistent_patterns |-> [order |-> <<>>, items |-> <<>>],
          all_runs_ids          |-> <<>>,
          names_by_identity     |-> <<>>,
          total_patterns        |-> 0,
          consistent_patterns   |-> 0]
    ELSE consistency_of_groups(rs, group_patterns(all_run_patterns(rs), EmptyGroups))

\* return statement: the entries of patterns_in_all_runs are list(names)[0],
\* given here by first, and the rest is as computed
naming_return_value(r, first) ==
    [consistency_score     |-> r.consistency_score,
     inconsistent_patterns |-> r.inconsistent_patterns,
     patterns_in_all_runs  |->
         [i \in DOMAIN r.all_runs_ids |-> first[r.all_runs_ids[i]]],
     total_patterns        |-> r.total_patterns,
     consistent_patterns   |-> r.consistent_patterns]

\* the possible choices of list(names)[0] for the identities in all runs
first_name_choices(r) ==
    {first \in [SeqToSet(r.all_runs_ids) ->
                  UNION {r.names_by_identity[k] : k \in DOMAIN r.names_by_identity}] :
        \A id \in DOMAIN first : first[id] \in r.names_by_identity[id]}

\* the values calculate_naming_consistency may return for rs
naming_return_values(r) ==
    {naming_return_value(r, first) : first \in first_name_choices(r)}

(***************************************************************************)
(* Specification of one site's naming consistency                          *)
(***************************************************************************)

MaxRuns == 3
MaxOccurrences == 3

NamingPatterns ==
    {[name |-> "meta_generator_wordpress", type |-> "meta",
      location |-> "head", value |-> "WordPress"],
     [name |-> "meta_generator_cms", type |-> "meta",
      location |-> "head", value |-> "WordPress"],
     [name |-> "meta_generator_wordpress", location |-> "x|selector:y"],
     [name |-> "meta_generator_wordpress", location |-> "x", selector |-> "y"],
     [type |-> "header", location |-> "server", value |-> "nginx"]}

InitNaming ==
    /\ pc = "input"
    /\ runs = <<>>
    /\ naming_result = <<>>
    /\ IdleFp /\ IdleReport /\ IdleComp /\ IdleLater

\* one more run of the site, so far without occurrences
NewRun ==
    /\ pc = "input"
    /\ Len(runs) < MaxRuns
    /\ runs' = Append(runs, [patterns |-> <<>>])
    /\ UNCHANGED <<pc, naming_result, fpVars, reportVars, compVars,
                 compReportVars, verifyVars, accuracyVars>>

\* one more occurrence reported by the latest run
AddOccurrence ==
    /\ pc = "input"
    /\ runs # <<>>
    /\ Len(all_run_patterns(runs)) < MaxOccurrences
    /\ \E p \in NamingPatterns :
         runs' = [runs EXCEPT ![Len(runs)].patterns = Append(@, p)]
    /\ UNCHANGED <<pc, naming_result, fpVars, reportVars, compVars,
                 compReportVars, verifyVars, accuracyVars>>

CalculateNamingConsistency ==
    /\ pc = "input"
    /\ naming_result' \in naming_return_values(naming_consistency(runs))
    /\ pc' = "done"
    /\ UNCHANGED <<runs, fpVars, reportVars, compVars,
                 compReportVars, verifyVars, accuracyVars>>

NextNaming == NewRun \/ AddOccurrence \/ CalculateNamingConsistency

SpecNaming == InitNaming /\ [][NextNaming]_vars

\* the occurrences of a site, the identity keys among them and the names
\* each key was given, read off the runs directly
OccurrencesOf(rs) == UNION {SeqToSet(rs[i].patterns) : i \in DOMAIN rs}
KeysOf(rs) == {normalize_pattern_for_comparison(p) : p \in OccurrencesOf(rs)}
NamesOfKey(rs, k) ==
    {pattern_name_of(p) :
        p \in {q \in OccurrencesOf(rs) : normalize_pattern_for_comparison(q) = k}}
SeenInRun(run, k) ==
    \E p \in SeqToSet(run.patterns) : normalize_pattern_for_comparison(p) = k

\* C2: the identity never depends on the name.  Two runs that each report
\* one occurrence with the same identity tuple under different names give 1
\* distinct identity, 0 consistent identities and score 0; two occurrences
\* with the same name and different identity tuples are counted as two
\* distinct identities.
C2_IdentityIgnoresName ==
    pc = "done" /\ Len(runs) >= 2 =>
        LET occs == all_run_patterns(runs)
        IN  /\ ( /\ Len(runs) = 2
                 /\ Len(runs[1].patterns) = 1
                 /\ Len(runs[2].patterns) = 1
                 /\ IdentityTuple(runs[1].patterns[1]) = IdentityTuple(runs[2].patterns[1])
                 /\ pattern_name_of(runs[1].patterns[1]) # pattern_name_of(runs[2].patterns[1]) )
               => /\ naming_result.total_patterns = 1
                  /\ naming_result.consistent_patterns = 0
                  /\ naming_result.consistency_score = Rat(0, 1)
            /\ ( /\ Len(occs) = 2
                 /\ pattern_name_of(occs[1]) = pattern_name_of(occs[2])
                 /\ IdentityTuple(occs[1]) # IdentityTuple(occs[2]) )
               => naming_result.total_patterns = 2

\* C3: with at least 2 runs and at least one occurrence the score is
\* 100 x (keys whose name set has exactly one member) / (distinct keys); it
\* lies in 0..100 and consistent + inconsistent = distinct identities.
C3_ScoreIsConsistentOverDistinct ==
    pc = "done" /\ Len(runs) >= 2 /\ OccurrencesOf(runs) # {} =>
        LET distinct   == Cardinality(KeysOf(runs))
            consistent == Cardinality({k \in KeysOf(runs) :
                                         Cardinality(NamesOfKey(runs, k)) = 1})
            score      == naming_result.consistency_score
        IN  /\ score = Rat(100 * consistent, distinct)
            /\ RatLeq(Rat(0, 1), score) /\ RatLeq(score, Rat(100, 1))
            /\ consistent
               + Cardinality(DOMAIN naming_result.inconsistent_patterns.items)
               = distinct

C3_Witness ==
    /\ pc = "done" /\ Len(runs) >= 2
    /\ naming_result.consistency_score = Rat(50, 1)
    /\ naming_result.total_patterns = 2

\* the name sets of the inconsistent identities of a result
InconsistentNames(r) ==
    [k \in DOMAIN r.inconsistent_patterns.items |->
        r.inconsistent_patterns.items[k].names]

PermuteRuns(rs, f) == [i \in DOMAIN rs |-> rs[f[i]]]

\* C4: the score and the inconsistent identities with their name sets are
\* the same for every permutation of the runs.
C4_RunOrderIrrelevant ==
    pc = "done" =>
        \A permuted \in {PermuteRuns(runs, f) : f \in Permutations(DOMAIN runs)} :
            \A r \in {naming_consistency(permuted)} :
                /\ r.consistency_score = naming_result.consistency_score
                /\ InconsistentNames(r) = InconsistentNames(naming_result)

C4_Witness ==
    /\ pc = "done" /\ Len(runs) = 3
    /\ runs[1] # runs[2] /\ runs[2] # runs[3] /\ runs[1] # runs[3]
    /\ DOMAIN naming_result.inconsistent_patterns.items # {}
    /\ naming_result.consistent_patterns > 0

\* C7: every entry of patterns_in_all_runs is a name of an identity that
\* was seen at least once in every one of the runs.
C7_InAllRunsMeansEveryRun ==
    pc = "done" =>
        \A i \in DOMAIN naming_result.patterns_in_all_runs :
            \E k \in KeysOf(runs) :
                /\ naming_result.patterns_in_all_runs[i] \in NamesOfKey(runs, k)
                /\ \A r \in DOMAIN runs : SeenInRun(runs[r], k)

(***************************************************************************)
(* evaluate-consistency.py: load_analysis_results                          *)
(***************************************************************************)

\* 'analysis' in data and 'technologyDetected' in data['analysis']
is_learn_shape(data) ==
    "analysis" \in DOMAIN data /\ "technologyDetected" \in DOMAIN data.analysis

\* 'analysisResult' in data and 'patterns' in data['analysisResult']
is_analysis_result_shape(data) ==
    "analysisResult" \in DOMAIN data /\ "patterns" \in DOMAIN data.analysisResult

\* the run appended for a learn-shape document
learn_run(data) ==
    LET keyPatterns == Get(data.analysis, "keyPatterns", <<>>)
    IN [timestamp |-> Get(Get(data, "metadata", <<>>), "timestamp", "unknown"),
        patterns  |-> [i \in DOMAIN keyPatterns |-> [name |-> keyPatterns[i]]],
        cms       |-> data.analysis.technologyDetected,
        phase     |-> Get(data, "phase", "combined")]

\* the run appended for an analysis-result document
analysis_result_run(data) ==
    [timestamp |-> Get(data, "timestamp", "unknown"),
     patterns  |-> data.analysisResult.patterns,
     cms       |-> Get(Get(data, "detectedCMS", <<>>), "name", "unknown"),
     phase     |-> Get(data, "phase", "unknown")]

\* url_results[url].append(run) on the defaultdict(list)
append_run(ur, url, run) ==
    LET known == url \in DOMAIN ur.runs
    IN [order |-> IF known THEN ur.order ELSE Append(ur.order, url),
        runs  |-> [u \in DOMAIN ur.runs \cup {url} |->
                     IF u = url
                     THEN Append(IF known THEN ur.runs[u] ELSE <<>>, run)
                     ELSE ur.runs[u]]]

(***************************************************************************)
(* evaluate-consistency.py: generate_consistency_report                    *)
(***************************************************************************)

MaxExamples == 5

\* [r for r in runs if r.get('phase') == 'phase2' or 'phase' not in r]
phase2_runs(rs) ==
    SelectSeq(rs, LAMBDA r : Get(r, "phase", "") = "phase2" \/ "phase" \notin DOMAIN r)

\* the runs of a site that are handed to calculate_naming_consistency
runs_for_site(rs, focus) == IF focus THEN phase2_runs(rs) ELSE rs

too_few_runs_below_one(rs) == Len(rs) < 1

\* if len(runs) < 2: continue
too_few_runs(rs) == Len(rs) < 2

inconsistent_examples_skip_first(inconsistent) ==
    LET ids == SubSeq(inconsistent.order, 2,
                      IF Len(inconsistent.order) < MaxExamples + 1
                      THEN Len(inconsistent.order) ELSE MaxExamples + 1)
    IN [i \in DOMAIN ids |->
          [names_used |-> inconsistent.items[ids[i]].names,
           type       |-> inconsistent.items[ids[i]].details.type,
           location   |-> inconsistent.items[ids[i]].details.location]]

\* for pattern_id, info in list(inconsistent.items())[:5]: ...append({...})
inconsistent_examples(inconsistent) ==
    LET ids == Prefix(inconsistent.order, MaxExamples)
    IN [i \in DOMAIN ids |->
          [names_used |-> inconsistent.items[ids[i]].names,
           type       |-> inconsistent.items[ids[i]].details.type,
           location   |-> inconsistent.items[ids[i]].details.location]]

\* the site_result dict of a scored site
site_result_of(url, rs, r) ==
    LET base == [url                         |-> url,
                 runs_analyzed               |-> Len(rs),
                 consistency_score           |-> r.consistency_score,
                 cms                         |-> Get(rs[1], "cms", "unknown"),
                 inconsistent_patterns_count |-> Len(r.inconsistent_patterns.order),
                 common_patterns_count       |-> Len(r.all_runs_ids)]
    IN IF r.inconsistent_patterns.order # <<>>
       THEN [k \in DOMAIN base \cup {"inconsistent_examples"} |->
               IF k = "inconsistent_examples"
               THEN inconsistent_examples(r.inconsistent_patterns)
               ELSE base[k]]
       ELSE base

\* report['cms_breakdown'][cms_type]['total'] += 1 and ['consistency_sum'] += score
cms_breakdown_add(bd, cms, score) ==
    LET old == IF cms \in DOMAIN bd THEN bd[cms]
               ELSE [total |-> 0, consistency_sum |-> Rat(0, 1)]
    IN [c \in DOMAIN bd \cup {cms} |->
          IF c = cms
          THEN [total |-> old.total + 1,
                consistency_sum |-> RatAdd(old.consistency_sum, score)]
          ELSE bd[c]]

\* what the loop body records for a scored site
add_site(acc, sr) ==
    [site_results  |-> Append(acc.site_results, sr),
     scores        |-> Append(acc.scores, sr.consistency_score),
     cms_breakdown |-> cms_breakdown_add(acc.cms_breakdown, sr.cms,
                                         sr.consistency_score)]

\* the loop over url_results.items()
RECURSIVE score_sites(_, _, _, _)
score_sites(ur, urls, focus, acc) ==
    IF urls = <<>> THEN acc
    ELSE
      LET url == Head(urls)
          rs  == runs_for_site(ur.runs[url], focus)
      IN IF too_few_runs(rs)
         THEN score_sites(ur, Tail(urls), focus, acc)
         ELSE score_sites(ur, Tail(urls), focus,
                add_site(acc, site_result_of(url, rs, naming_consistency(rs))))

RECURSIVE RatSum(_)
RatSum(xs) == IF xs = <<>> THEN Rat(0, 1) ELSE RatAdd(Head(xs), RatSum(Tail(xs)))

RatMin(xs) == CHOOSE x \in SeqToSet(xs) : \A y \in SeqToSet(xs) : RatLeq(x, y)
RatMax(xs) == CHOOSE x \in SeqToSet(xs) : \A y \in SeqToSet(xs) : RatLeq(y, x)

CountAtLeast(xs, k) == Cardinality({i \in DOMAIN xs : RatGeqInt(xs[i], k)})

\* report['overall_metrics'] when all_consistency_scores is not empty
overall_metrics_of(scores, cms_breakdown) ==
    [average_consistency          |-> RatDivInt(RatSum(scores), Len(scores)),
     min_consistency              |-> RatMin(scores),
     max_consistency              |-> RatMax(scores),
     sites_analyzed               |-> Len(scores),
     sites_95_percent_plus        |-> CountAtLeast(scores, 95),
     sites_98_percent_plus        |-> CountAtLeast(scores, 98),
     percentage_meeting_95_target |-> Rat(100 * CountAtLeast(scores, 95), Len(scores)),
     cms_averages                 |->
         [c \in {d \in DOMAIN cms_breakdown : cms_breakdown[d].total > 0} |->
            RatDivInt(cms_breakdown[c].consistency_sum, cms_breakdown[c].total)]]

test_result_never_insufficient(scores) ==
    IF scores # <<>> /\ RatGeqInt(RatDivInt(RatSum(scores), Len(scores)), 98)
    THEN "EXCELLENT"
    ELSE IF scores # <<>> /\ RatGeqInt(RatDivInt(RatSum(scores), Len(scores)), 95)
    THEN "GOOD"
    ELSE "NEEDS_IMPROVEMENT"

\* report['test_result']
test_result_of(scores) ==
    IF scores # <<>>
    THEN LET avg_consistency == RatDivInt(RatSum(scores), Len(scores))
         IN IF RatGeqInt(avg_consistency, 98) THEN "EXCELLENT"
            ELSE IF RatGeqInt(avg_consistency, 95) THEN "GOOD"
            ELSE "NEEDS_IMPROVEMENT"
    ELSE "INSUFFICIENT_DATA"

\* the report without its timestamp (the wall clock at the call)
report_of(ur, acc) ==
    [total_urls      |-> Len(ur.order),
     site_results    |-> acc.site_results,
     overall_metrics |-> IF acc.scores # <<>>
                         THEN overall_metrics_of(acc.scores, acc.cms_breakdown)
                         ELSE <<>>,
     cms_breakdown   |-> acc.cms_breakdown,
     test_result     |-> test_result_of(acc.scores)]

generate_consistency_report(ur, focus) ==
    report_of(ur, score_sites(ur, ur.order, focus,
                 [site_results |-> <<>>, scores |-> <<>>, cms_breakdown |-> <<>>]))

(***************************************************************************)
(* Specification of evaluate-consistency.py: the loader visits the files   *)
(* of the results directory one by one, then main generates the report.    *)
(***************************************************************************)

MaxFiles == 3
NIdent == 6

Urls == {"u1", "u2"}

\* n occurrences with n different identities, all named name
Wide(n, name) ==
    [i \in 1..n |-> [name |-> name, type |-> "meta",
                     location |-> "head" \o Repeat("/div", i - 1),
                     value |-> Repeat("v", i)]]

\* learn-shape documents: a flat list of pattern names, with or without phase
LearnDocuments ==
    {[analysis  |-> [technologyDetected |-> "wordpress", keyPatterns |-> <<"n1">>],
      inputData |-> [url |-> "u1"]],
     [analysis  |-> [technologyDetected |-> "wordpress", keyPatterns |-> <<"n1">>],
      inputData |-> [url |-> "u1"],
      phase     |-> "phase2"],
     [analysis  |-> [technologyDetected |-> "wordpress",
                     keyPatterns |-> <<"n1", "n2">>],
      inputData |-> [url |-> "u1"]],
     \* a run that reports no pattern
     [analysis  |-> [technologyDetected |-> "wordpress", keyPatterns |-> <<>>],
      inputData |-> [url |-> "u2"],
      phase     |-> "phase2"]}

\* analysis-result documents: structured patterns
AnalysisResultDocuments ==
    {[analysisResult |-> [patterns |-> d[1]],
      url            |-> u,
      detectedCMS    |-> [name |-> "drupal"],
      phase          |-> d[2]] :
        d \in {<<Wide(NIdent, "a"), "phase1">>, <<Wide(NIdent, "a"), "phase2">>,
               <<Wide(NIdent, "b"), "phase2">>, <<Wide(2, "b"), "phase2">>},
        u \in Urls}
    \cup
    {[analysisResult |-> [patterns |-> Wide(2, "b")], url |-> "u2"]}

\* a JSON document of neither shape
OtherDocuments == {[results |-> <<>>]}

Documents == LearnDocuments \cup AnalysisResultDocuments \cup OtherDocuments

InitReport ==
    /\ pc = "loading"
    /\ url_results = [order |-> <<>>, runs |-> <<>>]
    /\ files_loaded = 0
    /\ focus_phase2 = FALSE
    /\ report = <<>>
    /\ exit_code = -1
    /\ IdleFp /\ IdleNaming /\ IdleComp /\ IdleLater

\* one iteration of the loader's loop on a learn-shape document
LoadLearnFile ==
    /\ pc = "loading" /\ files_loaded < MaxFiles
    /\ \E data \in Documents :
         /\ is_learn_shape(data)
         /\ url_results' =
              append_run(url_results,
                         Get(Get(data, "inputData", <<>>), "url", "unknown"),
                         learn_run(data))
    /\ files_loaded' = files_loaded + 1
    /\ UNCHANGED <<pc, focus_phase2, report, exit_code, fpVars, namingVars, compVars,
                 compReportVars, verifyVars, accuracyVars>>

\* one iteration on an analysis-result document
LoadAnalysisResultFile ==
    /\ pc = "loading" /\ files_loaded < MaxFiles
    /\ \E data \in Documents :
         /\ ~is_learn_shape(data)
         /\ is_analysis_result_shape(data)
         /\ url_results' =
              append_run(url_results, Get(data, "url", "unknown"),
                         analysis_result_run(data))
    /\ files_loaded' = files_loaded + 1
    /\ UNCHANGED <<pc, focus_phase2, report, exit_code, fpVars, namingVars, compVars,
                 compReportVars, verifyVars, accuracyVars>>

\* one iteration on a document of neither shape: nothing is appended
LoadOtherFile ==
    /\ pc = "loading" /\ files_loaded < MaxFiles
    /\ \E data \in Documents :
         ~is_learn_shape(data) /\ ~is_analysis_result_shape(data)
    /\ files_loaded' = files_loaded + 1
    /\ UNCHANGED <<pc, url_results, focus_phase2, report, exit_code,
                   fpVars, namingVars, compVars,
                 compReportVars, verifyVars, accuracyVars>>

\* main: if not url_results: return 1
MainNoResults ==
    /\ pc = "loading"
    /\ url_results.order = <<>>
    /\ pc' = "no_results"
    /\ exit_code' = 1
    /\ \E f \in BOOLEAN : focus_phase2' = f
    /\ UNCHANGED <<url_results, files_loaded, report, fpVars, namingVars, compVars,
                 compReportVars, verifyVars, accuracyVars>>

\* main: the report is generated and the exit code derived from its verdict
MainGenerateReport ==
    /\ pc = "loading"
    /\ url_results.order # <<>>
    /\ \E f \in BOOLEAN :
         /\ focus_phase2' = f
         /\ report' = generate_consistency_report(url_results, f)
    /\ exit_code' = IF report'.test_result \in {"NEEDS_IMPROVEMENT", "INSUFFICIENT_DATA"}
                    THEN 1 ELSE 0
    /\ pc' = "reported"
    /\ UNCHANGED <<url_results, files_loaded, fpVars, namingVars, compVars,
                 compReportVars, verifyVars, accuracyVars>>

NextReport ==
    \/ LoadLearnFile \/ LoadAnalysisResultFile \/ LoadOtherFile
    \/ MainNoResults \/ MainGenerateReport

SpecReport == InitReport /\ [][NextReport]_vars

\* the runs of a site that count for the report: all of them, or with
\* focus_phase2 those the loader tagged phase2
EligibleRuns(u) ==
    {i \in DOMAIN url_results.runs[u] :
        ~focus_phase2 \/ url_results.runs[u][i].phase = "phase2"}

ScoredUrls == {u \in DOMAIN url_results.runs : Cardinality(EligibleRuns(u)) >= 2}

ReportedUrls == {report.site_results[i].url : i \in DOMAIN report.site_results}

SiteScores == [i \in DOMAIN report.site_results |->
                 report.site_results[i].consistency_score]

\* C5: a site with fewer than 2 runs (after phase filtering) is left out
\* of the report: no site_results entry, no score in average/min/max, not
\* counted in sites_analyzed nor in the per-CMS breakdown.
C5_TooFewRunsExcluded ==
    pc = "reported" =>
        /\ \A u \in DOMAIN url_results.runs :
             Cardinality(EligibleRuns(u)) < 2 => u \notin ReportedUrls
        /\ Len(report.site_results) = Cardinality(ScoredUrls)
        /\ LET bd == report.cms_breakdown
           IN \A c \in DOMAIN bd :
                bd[c].total = Cardinality({i \in DOMAIN report.site_results :
                                             report.site_results[i].cms = c})
        /\ report.overall_metrics # <<>> =>
             /\ report.overall_metrics.sites_analyzed = Cardinality(ScoredUrls)
             /\ report.overall_metrics.average_consistency
                  = RatDivInt(RatSum(SiteScores), Cardinality(ScoredUrls))
             /\ report.overall_metrics.min_consistency \in SeqToSet(SiteScores)
             /\ report.overall_metrics.max_consistency \in SeqToSet(SiteScores)
             /\ \A i \in DOMAIN SiteScores :
                  /\ RatLeq(report.overall_metrics.min_consistency, SiteScores[i])
                  /\ RatLeq(SiteScores[i], report.overall_metrics.max_consistency)

C5_Witness ==
    /\ pc = "reported"
    /\ \E u, v \in DOMAIN url_results.runs :
         /\ Len(url_results.runs[u]) = 1
         /\ v \in ReportedUrls
         /\ u \notin ReportedUrls

\* C6: the verdict is INSUFFICIENT_DATA exactly when no site has 2 runs to
\* score; overall_metrics is then empty; otherwise the verdict is one of
\* EXCELLENT, GOOD, NEEDS_IMPROVEMENT.
C6_InsufficientDataIffNothingScored ==
    pc = "reported" =>
        /\ report.test_result = "INSUFFICIENT_DATA" <=> ScoredUrls = {}
        /\ report.test_result = "INSUFFICIENT_DATA" =>
             report.overall_metrics = <<>>
        /\ ScoredUrls # {} =>
             report.test_result \in {"EXCELLENT", "GOOD", "NEEDS_IMPROVEMENT"}

C6_Witness ==
    /\ pc = "reported"
    /\ report.test_result = "INSUFFICIENT_DATA"
    /\ \E u \in DOMAIN url_results.runs : Len(url_results.runs[u]) >= 2

\* C8: the runs handed to calculate_naming_consistency for a site never
\* contain a phase1 run together with a phase2 run, whatever focus_phase2 is.
C8_PhasesNeverMixed ==
    pc = "reported" =>
        \A u \in DOMAIN url_results.runs :
            LET rs == runs_for_site(url_results.runs[u], focus_phase2)
            IN ~too_few_runs(rs) =>
                 \A i, j \in DOMAIN rs :
                    ~(rs[i].phase = "phase1" /\ rs[j].phase = "phase2")

\* the keys of the occurrences of rs in the order the runs report them
KeySequence(rs) ==
    LET ps == Concat([i \in DOMAIN rs |-> rs[i].patterns])
    IN [i \in DOMAIN ps |-> normalize_pattern_for_comparison(ps[i])]

\* position of the first occurrence with key k in a sequence of keys
FirstSeen(ks, k) ==
    CHOOSE i \in DOMAIN ks : ks[i] = k /\ \A j \in 1..(i - 1) : ks[j] # k

InconsistentKeys(rs) ==
    {k \in KeysOf(rs) : Cardinality(NamesOfKey(rs, k)) > 1}

ExamplesOf(sr) == Get(sr, "inconsistent_examples", <<>>)

\* C9: every identity of a scored site whose name set has more than one
\* member appears in the report with its names, type and location; the
\* reported entries are as many as inconsistent_patterns_count.
C9_NoInconsistentIdentityDropped ==
    pc = "reported" =>
        \A s \in DOMAIN report.site_results :
            LET sr == report.site_results[s]
                rs == runs_for_site(url_results.runs[sr.url], focus_phase2)
            IN  /\ Len(ExamplesOf(sr)) = sr.inconsistent_patterns_count
                /\ \A k \in InconsistentKeys(rs) :
                     \E e \in DOMAIN ExamplesOf(sr) :
                        /\ ExamplesOf(sr)[e].names_used = NamesOfKey(rs, k)
                        /\ \E p \in OccurrencesOf(rs) :
                             /\ normalize_pattern_for_comparison(p) = k
                             /\ ExamplesOf(sr)[e].type = Get(p, "type", "")
                             /\ ExamplesOf(sr)[e].location = Get(p, "location", "")

\* C9 as amended: inconsistent_patterns_count counts every identity whose
\* name set has more than one member, and inconsistent_examples lists the
\* first min(5, count) of them in order of first appearance, each with its
\* names and the type and location of its first occurrence.
C9_ExamplesAreFirstFive ==
    pc = "reported" =>
        \A s \in DOMAIN report.site_results :
            LET sr  == report.site_results[s]
                rs  == runs_for_site(url_results.runs[sr.url], focus_phase2)
                ps  == Concat([i \in DOMAIN rs |-> rs[i].patterns])
            IN \A ks \in {KeySequence(rs)} :
               \A bad \in {{k \in SeqToSet(ks) :
                              Cardinality({pattern_name_of(ps[i]) :
                                  i \in {j \in DOMAIN ks : ks[j] = k}}) > 1}} :
                /\ sr.inconsistent_patterns_count = Cardinality(bad)
                /\ Len(ExamplesOf(sr)) = (IF Cardinality(bad) < 5 THEN Cardinality(bad) ELSE 5)
                /\ \A k \in bad :
                     \A rank \in {1 + Cardinality({j \in bad :
                                      FirstSeen(ks, j) < FirstSeen(ks, k)})} :
                        rank <= 5 =>
                          ExamplesOf(sr)[rank] =
                            [names_used |-> {pattern_name_of(ps[i]) :
                                                i \in {j \in DOMAIN ks : ks[j] = k}},
                             type       |-> Get(ps[FirstSeen(ks, k)], "type", ""),
                             location   |-> Get(ps[FirstSeen(ks, k)], "location", "")]

C9_Witness ==
    /\ pc = "reported"
    /\ \E s \in DOMAIN report.site_results :
         /\ report.site_results[s].inconsistent_patterns_count > 5
         /\ Len(ExamplesOf(report.site_results[s])) = 5

(***************************************************************************)
(* evaluate-completeness.py: calculate_completeness                        *)
(***************************************************************************)

calculate_completeness_list_length(discovered_patterns, required_patterns) ==
    LET required_set     == SeqToSet(required_patterns)
        found_patterns   == discovered_patterns \cap required_set
        missing_patterns == required_set \ found_patterns
    IN [completeness |-> IF required_set # {}
                         THEN Rat(100 * Cardinality(found_patterns),
                                  Len(required_patterns))
                         ELSE Rat(0, 1),
        found        |-> found_patterns,
        missing      |-> missing_patterns]

calculate_completeness(discovered_patterns, required_patterns) ==
    LET required_set     == SeqToSet(required_patterns)
        found_patterns   == discovered_patterns \cap required_set
        missing_patterns == required_set \ found_patterns
    IN [completeness |-> IF required_set # {}
                         THEN Rat(100 * Cardinality(found_patterns),
                                  Cardinality(required_set))
                         ELSE Rat(0, 1),
        found        |-> found_patterns,
        missing      |-> missing_patterns]

(***************************************************************************)
(* Specification of one completeness calculation                           *)
(***************************************************************************)

MaxRequired == 3

PatternNames == {"meta_generator_wordpress", "url_content_wordpress",
                 "header_api_wordpress", "script_jquery"}

RequiredLists == UNION {[1..n -> PatternNames] : n \in 0..MaxRequired}

InitComp ==
    /\ pc = "input"
    /\ discovered \in SUBSET PatternNames
    /\ required \in RequiredLists
    /\ completeness_result = <<>>
    /\ IdleFp /\ IdleNaming /\ IdleReport /\ IdleLater

CalculateCompleteness ==
    /\ pc = "input"
    /\ completeness_result' = calculate_completeness(discovered, required)
    /\ pc' = "done"
    /\ UNCHANGED <<discovered, required, fpVars, namingVars, reportVars,
                 compReportVars, verifyVars, accuracyVars>>

NextComp == CalculateCompleteness

SpecComp == InitComp /\ [][NextComp]_vars

\* C10: completeness is 100 x |discovered /\ required| / |required| (0 for
\* an empty required list), found is discovered /\ required and missing is
\* required - discovered, so found and missing partition the required set.
C10_CompletenessIsCoverageOfRequired ==
    pc = "done" =>
        LET R == {required[i] : i \in DOMAIN required}
            r == completeness_result
        IN  /\ R = {} => r.completeness = Rat(0, 1)
            /\ R # {} => r.completeness.num * Cardinality(R)
                            = 100 * Cardinality(discovered \cap R) * r.completeness.den
            /\ r.found = discovered \cap R
            /\ r.missing = R \ discovered
            /\ r.found \cap r.missing = {}
            /\ r.found \cup r.missing = R

\* 2 of 3 required names found: 200/3 = 66.7%, the third one missing
C10_Witness ==
    /\ pc = "done"
    /\ discovered = {"meta_generator_wordpress", "url_content_wordpress"}
    /\ required = <<"meta_generator_wordpress", "url_content_wordpress",
                    "header_api_wordpress">>
    /\ completeness_result.completeness = [num |-> 200, den |-> 3]
    /\ completeness_result.missing = {"header_api_wordpress"}

(***************************************************************************)
(* evaluate-completeness.py: analyze_pattern_frequency, generate_report,   *)
(* main                                                                    *)
(***************************************************************************)

\* p['name'] raises KeyError for a pattern dict without a 'name'
has_unnamed_pattern(result) ==
    \E i \in DOMAIN result.patterns : "name" \notin DOMAIN result.patterns[i]

\* set(p['name'] for p in result['patterns'])
site_patterns(result) ==
    {result.patterns[i].name : i \in DOMAIN result.patterns}

\* pattern_freq[pattern_name] = pattern_freq.get(pattern_name, 0) + 1 for
\* every name of unique_patterns
add_frequency(pattern_freq, unique_patterns) ==
    [name \in DOMAIN pattern_freq \cup unique_patterns |->
        IF name \in unique_patterns
        THEN Get(pattern_freq, name, 0) + 1
        ELSE pattern_freq[name]]

RECURSIVE analyze_pattern_frequency(_)
analyze_pattern_frequency(all_results) ==
    IF all_results = <<>> THEN <<>>
    ELSE add_frequency(
             analyze_pattern_frequency(SubSeq(all_results, 1, Len(all_results) - 1)),
             site_patterns(all_results[Len(all_results)]))

all_discovered_first_site(all_results) ==
    IF all_results = <<>> THEN {} ELSE site_patterns(Head(all_results))

all_discovered_last_site(all_results) ==
    IF all_results = <<>> THEN {} ELSE site_patterns(all_results[Len(all_results)])

\* all_discovered after the loop over the sites
RECURSIVE all_discovered_of(_)
all_discovered_of(all_results) ==
    IF all_results = <<>> THEN {}
    ELSE site_patterns(Head(all_results)) \cup all_discovered_of(Tail(all_results))

\* the entry appended to report['site_results'] for one site
completeness_site_result(result, site, c) ==
    [url                |-> result.url,
     patterns_found     |-> Cardinality(site),
     completeness_score |-> c.completeness,
     missing_patterns   |-> c.missing]

\* len(all_results) * 0.8
consistent_threshold_of(all_results) == Rat(Len(all_results) * 8, 10)

consistent_patterns_strictly_above(pattern_frequency, consistent_threshold) ==
    {p \in DOMAIN pattern_frequency :
        ~RatLeq(Rat(pattern_frequency[p], 1), consistent_threshold)}

\* [p for p, freq in pattern_frequency.items() if freq >= consistent_threshold]
consistent_patterns_of(pattern_frequency, consistent_threshold) ==
    {p \in DOMAIN pattern_frequency :
        RatLeq(consistent_threshold, Rat(pattern_frequency[p], 1))}

\* report['test_result']
completeness_test_result(overall_completeness) ==
    IF RatGeqInt(overall_completeness, 95) THEN "EXCELLENT"
    ELSE IF RatGeqInt(overall_completeness, 90) THEN "GOOD"
    ELSE "NEEDS_IMPROVEMENT"

\* the report assembled from the values computed by generate_report
completeness_report_of(cms_type, all_results, required_patterns, overall, all_discovered, pattern_frequency) ==
    [cms_type                |-> cms_type,
     sites_analyzed          |-> Len(all_results),
     required_patterns_count |-> Len(required_patterns),
     site_results            |->
         [i \in DOMAIN all_results |->
             completeness_site_result(
                 all_results[i], site_patterns(all_results[i]),
                 calculate_completeness(site_patterns(all_results[i]),
                                        required_patterns))],
     overall_metrics         |->
         [overall_completeness            |-> overall.completeness,
          patterns_found_across_all_sites |-> Cardinality(all_discovered),
          required_patterns_found         |-> Cardinality(overall.found),
          required_patterns_missing       |-> overall.missing,
          consistent_patterns             |->
              consistent_patterns_of(pattern_frequency,
                                     consistent_threshold_of(all_results)),
          pattern_frequency               |-> pattern_frequency],
     test_result             |-> completeness_test_result(overall.completeness)]

\* generate_report without the timestamp (the wall clock at the call); a
\* pattern without a 'name' makes the loop over the sites raise KeyError
generate_report(cms_type, all_results, required_patterns) ==
    IF \E i \in DOMAIN all_results : has_unnamed_pattern(all_results[i])
    THEN [raised |-> "KeyError"]
    ELSE completeness_report_of(
             cms_type, all_results, required_patterns,
             calculate_completeness(all_discovered_of(all_results), required_patterns),
             all_discovered_of(all_results),
             analyze_pattern_frequency(all_results))

(***************************************************************************)
(* evaluate-phase2-completeness.py: extract_patterns_from_phase2,          *)
(* evaluate_completeness, the summary of main                              *)
(***************************************************************************)

\* c.lower() for a string of one character
LowerChar(c) ==
    IF \E i \in 1..26 : SubSeq("ABCDEFGHIJKLMNOPQRSTUVWXYZ", i, i) = c
    THEN LET i == CHOOSE k \in 1..26 : SubSeq("ABCDEFGHIJKLMNOPQRSTUVWXYZ", k, k) = c
         IN SubSeq("abcdefghijklmnopqrstuvwxyz", i, i)
    ELSE c

\* s.lower()
RECURSIVE Lower(_)
Lower(s) ==
    IF s = "" THEN ""
    ELSE LowerChar(SubSeq(s, 1, 1)) \o Lower(SubSeq(s, 2, Len(s)))

\* the condition shared by extract_patterns_from_phase2 (lines 28-29) and
\* evaluate_completeness (lines 64-65)
is_phased_analysis(data) ==
    /\ "llmResponse" \in DOMAIN data
    /\ "phasedAnalysis" \in DOMAIN data.llmResponse
    /\ data.llmResponse.phasedAnalysis
    /\ "phases" \in DOMAIN data.llmResponse

extract_patterns_from_phase2(analysis_data) ==
    IF is_phased_analysis(analysis_data) /\ Len(analysis_data.llmResponse.phases) > 1
    THEN LET phase2 == analysis_data.llmResponse.phases[2]
         IN IF "result" \in DOMAIN phase2
               /\ "standardized_patterns" \in DOMAIN phase2.result
            THEN LET sp == phase2.result.standardized_patterns
                 IN {sp[i].pattern_name :
                        i \in {j \in DOMAIN sp : "pattern_name" \in DOMAIN sp[j]}}
            ELSE {}
    ELSE {}

\* the guard of the results.append of evaluate_completeness
is_site_of_cms(data, cms_name) ==
    /\ is_phased_analysis(data)
    /\ Len(data.llmResponse.phases) > 0
    /\ "result" \in DOMAIN data.llmResponse.phases[1]
    /\ "technology" \in DOMAIN data.llmResponse.phases[1].result
    /\ data.llmResponse.phases[1].result.technology # ""
    /\ Lower(data.llmResponse.phases[1].result.technology) = cms_name

phase2_url(data) ==
    IF "metadata" \in DOMAIN data /\ "url" \in DOMAIN data.metadata
    THEN data.metadata.url
    ELSE IF "inputData" \in DOMAIN data /\ "url" \in DOMAIN data.inputData
    THEN data.inputData.url
    ELSE "unknown"

\* len(found) / len(reference) if reference else 0
phase2_ratio(found, reference) ==
    IF reference # {} THEN Rat(Cardinality(found), Cardinality(reference))
    ELSE Rat(0, 1)

\* the dict appended to results for one site
phase2_site_result(data, patterns, expected_patterns, discriminator_patterns) ==
    [url                       |-> phase2_url(data),
     total_patterns            |-> Cardinality(patterns),
     found_patterns            |-> patterns,
     found_expected            |-> patterns \cap expected_patterns,
     found_discriminators      |-> patterns \cap discriminator_patterns,
     expected_completeness     |->
         phase2_ratio(patterns \cap expected_patterns, expected_patterns),
     discriminator_completeness |->
         phase2_ratio(patterns \cap discriminator_patterns, discriminator_patterns)]

RECURSIVE phase2_results(_, _, _, _)
phase2_results(files, cms_name, expected_patterns, discriminator_patterns) ==
    IF files = <<>> THEN <<>>
    ELSE IF is_site_of_cms(Head(files), cms_name)
    THEN <<phase2_site_result(Head(files), extract_patterns_from_phase2(Head(files)),
                              expected_patterns, discriminator_patterns)>>
         \o phase2_results(Tail(files), cms_name, expected_patterns,
                           discriminator_patterns)
    ELSE phase2_results(Tail(files), cms_name, expected_patterns,
                        discriminator_patterns)

\* sum(r[field] for r in results) / len(results) if results else 0
phase2_average(results, field) ==
    IF results # <<>>
    THEN RatDivInt(RatSum([i \in DOMAIN results |-> results[i][field]]), Len(results))
    ELSE Rat(0, 1)

phase2_evaluation_of(cms_name, expected_patterns, discriminator_patterns, results) ==
    [cms                    |-> cms_name,
     total_sites            |-> Len(results),
     expected_patterns      |-> expected_patterns,
     discriminator_patterns |-> discriminator_patterns,
     site_results           |-> results,
     average_completeness   |-> phase2_average(results, "expected_completeness"),
     average_discriminator_completeness |->
         phase2_average(results, "discriminator_completeness")]

\* evaluate_completeness on the parsed files of phase1_dir and the parsed
\* reference file
evaluate_completeness(files, reference_data) ==
    phase2_evaluation_of(
        Lower(reference_data.cms),
        SeqToSet(reference_data.required_patterns),
        SeqToSet(Get(reference_data, "discriminator_patterns", <<>>)),
        phase2_results(files, Lower(reference_data.cms),
                       SeqToSet(reference_data.required_patterns),
                       SeqToSet(Get(reference_data, "discriminator_patterns", <<>>))))

\* the band printed under SUMMARY by main; average_completeness is a
\* fraction of 1
phase2_summary(evaluation_) ==
    IF RatLeq(Rat(95, 100), evaluation_.average_completeness) THEN "EXCELLENT"
    ELSE IF RatLeq(Rat(90, 100), evaluation_.average_completeness) THEN "GOOD"
    ELSE "NEEDS IMPROVEMENT"

(***************************************************************************)
(* evaluate-completeness.py: load_phase1_results                           *)
(***************************************************************************)

\* the learn-shape branch appends a site result
phase1_learn_matches(data, cms_type) ==
    is_learn_shape(data)
      /\ Lower(data.analysis.technologyDetected) = Lower(cms_type)

\* the fallback branch appends a site result
phase1_analysis_matches(data, cms_type) ==
    /\ ~is_learn_shape(data)
    /\ Lower(Get(Get(data, "detectedCMS", <<>>), "name", "")) = Lower(cms_type)
    /\ is_analysis_result_shape(data)

phase1_learn_result(data) ==
    LET keyPatterns == Get(data.analysis, "keyPatterns", <<>>)
    IN [url      |-> Get(Get(data, "inputData", <<>>), "url", "unknown"),
        patterns |-> [i \in DOMAIN keyPatterns |-> [name |-> keyPatterns[i]]]]

phase1_analysis_result(data) ==
    [url      |-> Get(data, "url", "unknown"),
     patterns |-> data.analysisResult.patterns]

(***************************************************************************)
(* Specification of the completeness evaluators: the loader visits the     *)
(* files of the results directory, then main of evaluate-completeness.py   *)
(* reports on them, or evaluate-phase2-completeness.py evaluates the same  *)
(* sites stored as phased analyses.                                        *)
(***************************************************************************)

MaxSites == 5
NRequired == 20

CmsType == "wordpress"

\* RequiredName(i) for i in 1..NRequired
RequiredName(i) == "required_" \o Repeat("i", i)

NamedPatterns(from, to) ==
    [i \in 1..(to - from + 1) |-> RequiredName(from + i - 1)]

\* the required_patterns of the reference file: none, the first half, all
ReferenceLists ==
    {<<>>, NamedPatterns(1, NRequired \div 2), NamedPatterns(1, NRequired)}

\* a learn-shape file with the required names 1..9
LearnSiteDocument ==
    [analysis  |-> [technologyDetected |-> "WordPress",
                    keyPatterns |-> NamedPatterns(1, NRequired \div 2 - 1)],
     inputData |-> [url |-> "u1"]]

\* an analysis-result file with the required names 10..19, the first of
\* them reported twice, and a name that is not required
AnalysisSiteDocument ==
    [url |-> "u2",
     detectedCMS |-> [name |-> "wordpress"],
     analysisResult |->
        [patterns |->
            [i \in 1..(NRequired \div 2 + 2) |->
                IF i = NRequired \div 2 + 1 THEN [name |-> RequiredName(NRequired \div 2)]
                ELSE IF i = NRequired \div 2 + 2 THEN [name |-> "script_jquery"]
                ELSE [name |-> RequiredName(NRequired \div 2 + i - 1), type |-> "meta"]]]]

\* an analysis-result file with a pattern that has no name
UnnamedPatternDocument ==
    [url |-> "u3",
     detectedCMS |-> [name |-> "WordPress"],
     analysisResult |-> [patterns |-> <<[type |-> "meta", value |-> "WordPress"]>>]]

\* a file of another CMS and a file of neither shape
SkippedDocuments ==
    {[url |-> "u4", detectedCMS |-> [name |-> "Drupal"],
      analysisResult |-> [patterns |-> <<[name |-> RequiredName(NRequired)]>>]],
     [results |-> <<>>]}

CompletenessDocuments ==
    {LearnSiteDocument, AnalysisSiteDocument, UnnamedPatternDocument}
    \cup SkippedDocuments

\* the file a phased analysis of the same site stores: phase 1 names the
\* technology, phase 2 the standardized patterns
phased_analysis_document(result) ==
    [llmResponse |->
        [phasedAnalysis |-> TRUE,
         phases |->
            <<[result |-> [technology |-> "WordPress"]],
              [result |-> [standardized_patterns |->
                  [i \in DOMAIN result.patterns |->
                      IF "name" \in DOMAIN result.patterns[i]
                      THEN [pattern_name |-> result.patterns[i].name]
                      ELSE [description |-> "unnamed"]]]]>>],
     metadata |-> [url |-> result.url]]

\* the reference file: its discriminator patterns are the first required
\* name, if any
reference_data_of(required_patterns) ==
    [cms |-> "WordPress", required_patterns |-> required_patterns,
     discriminator_patterns |-> SubSeq(required_patterns, 1,
                                       IF required_patterns = <<>> THEN 0 ELSE 1)]

InitCompReport ==
    /\ pc = "loading"
    /\ phase1_results = <<>>
    /\ reference_required \in ReferenceLists
    /\ completeness_report = <<>>
    /\ evaluation = <<>>
    /\ IdleFp /\ IdleNaming /\ IdleReport /\ IdleComp /\ IdleVerify /\ IdleAccuracy

\* one iteration of the loop of load_phase1_results on a learn-shape file
\* of the CMS
LoadPhase1LearnFile ==
    /\ pc = "loading" /\ files_loaded < MaxSites
    /\ \E data \in CompletenessDocuments :
         /\ phase1_learn_matches(data, CmsType)
         /\ phase1_results' = Append(phase1_results, phase1_learn_result(data))
    /\ files_loaded' = files_loaded + 1
    /\ UNCHANGED <<pc, reference_required, completeness_report, evaluation,
                   url_results, focus_phase2, report, exit_code,
                   fpVars, namingVars, compVars, verifyVars, accuracyVars>>

\* ... on an analysis-result file of the CMS
LoadPhase1AnalysisFile ==
    /\ pc = "loading" /\ files_loaded < MaxSites
    /\ \E data \in CompletenessDocuments :
         /\ phase1_analysis_matches(data, CmsType)
         /\ phase1_results' = Append(phase1_results, phase1_analysis_result(data))
    /\ files_loaded' = files_loaded + 1
    /\ UNCHANGED <<pc, reference_required, completeness_report, evaluation,
                   url_results, focus_phase2, report, exit_code,
                   fpVars, namingVars, compVars, verifyVars, accuracyVars>>

\* ... on a file of another CMS or of neither shape: nothing is appended
LoadPhase1OtherFile ==
    /\ pc = "loading" /\ files_loaded < MaxSites
    /\ \E data \in CompletenessDocuments :
         /\ ~phase1_learn_matches(data, CmsType)
         /\ ~phase1_analysis_matches(data, CmsType)
    /\ files_loaded' = files_loaded + 1
    /\ UNCHANGED <<pc, phase1_results, reference_required, completeness_report,
                   evaluation, url_results, focus_phase2, report, exit_code,
                   fpVars, namingVars, compVars, verifyVars, accuracyVars>>

\* main of evaluate-completeness.py: "if not phase1_results: return 1"
CompletenessMainNoResults ==
    /\ pc = "loading"
    /\ phase1_results = <<>>
    /\ pc' = "no_results"
    /\ exit_code' = 1
    /\ UNCHANGED <<url_results, files_loaded, focus_phase2, report,
                   fpVars, namingVars, compVars, compReportVars,
                   verifyVars, accuracyVars>>

\* main: generate_report raises, "except Exception" returns 1
CompletenessMainFailed ==
    /\ pc = "loading"
    /\ phase1_results # <<>>
    /\ "raised" \in DOMAIN generate_report(CmsType, phase1_results, reference_required)
    /\ pc' = "failed"
    /\ exit_code' = 1
    /\ UNCHANGED <<url_results, files_loaded, focus_phase2, report,
                   fpVars, namingVars, compVars, compReportVars,
                   verifyVars, accuracyVars>>

\* main: the report is generated, the exit code follows its test_result
CompletenessMainReport ==
    /\ pc = "loading"
    /\ phase1_results # <<>>
    /\ "raised" \notin DOMAIN generate_report(CmsType, phase1_results, reference_required)
    /\ completeness_report' = generate_report(CmsType, phase1_results, reference_required)
    /\ pc' = "reported"
    /\ exit_code' = IF completeness_report'.test_result = "NEEDS_IMPROVEMENT"
                    THEN 1 ELSE 0
    /\ UNCHANGED <<phase1_results, reference_required, evaluation,
                   url_results, files_loaded, focus_phase2, report,
                   fpVars, namingVars, compVars, verifyVars, accuracyVars>>

\* main of evaluate-phase2-completeness.py on the same sites: the
\* evaluation is printed and saved, the process ends with status 0
Phase2Main ==
    /\ pc = "loading"
    /\ evaluation' =
         evaluate_completeness(
             [i \in DOMAIN phase1_results |-> phased_analysis_document(phase1_results[i])],
             reference_data_of(reference_required))
    /\ pc' = "evaluated"
    /\ exit_code' = 0
    /\ UNCHANGED <<phase1_results, reference_required, completeness_report,
                   url_results, files_loaded, focus_phase2, report,
                   fpVars, namingVars, compVars, verifyVars, accuracyVars>>

NextCompReport ==
    \/ LoadPhase1LearnFile \/ LoadPhase1AnalysisFile \/ LoadPhase1OtherFile
    \/ CompletenessMainNoResults \/ CompletenessMainFailed
    \/ CompletenessMainReport \/ Phase2Main

SpecCompReport == InitCompReport /\ [][NextCompReport]_vars

\* the names site i reports, the names any site reports, the required set
SiteNames(i) ==
    {phase1_results[i].patterns[j].name :
        j \in {k \in DOMAIN phase1_results[i].patterns :
                  "name" \in DOMAIN phase1_results[i].patterns[k]}}
DiscoveredAnywhere == UNION {SiteNames(i) : i \in DOMAIN phase1_results}
RequiredSet == SeqToSet(reference_required)

\* C11: overall_completeness is 100 x |union of the sites' names /\ required|
\* / |required|, hence at least every site's completeness_score; it is not
\* the mean of the site scores.
C11_OverallIsCoverageOfUnion ==
    pc = "reported" =>
        LET overall == completeness_report.overall_metrics.overall_completeness
            sites   == completeness_report.site_results
        IN  /\ RequiredSet # {} =>
                 overall.num * Cardinality(RequiredSet)
                   = 100 * Cardinality(DiscoveredAnywhere \cap RequiredSet) * overall.den
            /\ completeness_report.overall_metrics.required_patterns_found
                 = Cardinality(DiscoveredAnywhere \cap RequiredSet)
            /\ \A i \in DOMAIN sites : RatLeq(sites[i].completeness_score, overall)

\* two sites with 9 and 10 of 20 required names: 45% and 50%, overall 95%
C11_Witness ==
    /\ pc = "reported"
    /\ Len(phase1_results) = 2
    /\ Cardinality(RequiredSet) = NRequired
    /\ completeness_report.overall_metrics.overall_completeness = Rat(95, 1)
    /\ \A i \in 1..2 :
         ~RatLeq(Rat(95, 1), completeness_report.site_results[i].completeness_score)
    /\ RatDivInt(RatAdd(completeness_report.site_results[1].completeness_score,
                        completeness_report.site_results[2].completeness_score), 2)
         # completeness_report.overall_metrics.overall_completeness

\* the well-formed site results a further file can contribute
FurtherSiteResults ==
    {phase1_learn_result(LearnSiteDocument),
     phase1_analysis_result(AnalysisSiteDocument),
     [url |-> "u5", patterns |-> <<>>]}

\* C12: a further site never reduces overall_completeness, and
\* required_patterns_missing can only shrink.
C12_AddingSiteNeverReduces ==
    pc = "reported" =>
        \A r \in FurtherSiteResults :
            \A more \in {generate_report(CmsType, Append(phase1_results, r),
                                         reference_required)} :
                /\ RatLeq(completeness_report.overall_metrics.overall_completeness,
                          more.overall_metrics.overall_completeness)
                /\ more.overall_metrics.required_patterns_missing
                     \subseteq completeness_report.overall_metrics.required_patterns_missing

\* a report that a further site strictly improves
C12_Witness ==
    /\ pc = "reported"
    /\ \E r \in FurtherSiteResults :
         \E more \in {generate_report(CmsType, Append(phase1_results, r),
                                      reference_required)} :
            /\ ~RatLeq(more.overall_metrics.overall_completeness,
                       completeness_report.overall_metrics.overall_completeness)
            /\ more.overall_metrics.required_patterns_missing
                 # completeness_report.overall_metrics.required_patterns_missing

\* the number of times site i reports the name
OccurrencesInSite(i, name) ==
    Cardinality({j \in DOMAIN phase1_results[i].patterns :
                    phase1_results[i].patterns[j].name = name})

\* C13: pattern_frequency[name] is the number of sites that report the name
\* at least once, never more than sites_analyzed, and consistent_patterns
\* holds exactly the names with 5 x frequency >= 4 x sites_analyzed.
C13_FrequencyCountsSites ==
    pc = "reported" =>
        LET m == completeness_report.overall_metrics
            n == completeness_report.sites_analyzed
        IN  /\ n = Len(phase1_results)
            /\ DOMAIN m.pattern_frequency = DiscoveredAnywhere
            /\ \A name \in DiscoveredAnywhere :
                 /\ m.pattern_frequency[name]
                      = Cardinality({i \in DOMAIN phase1_results : name \in SiteNames(i)})
                 /\ m.pattern_frequency[name] <= n
            /\ m.consistent_patterns
                 = {name \in DiscoveredAnywhere : 5 * m.pattern_frequency[name] >= 4 * n}

\* five sites, a name in exactly four of them (80%) is consistent, and a
\* name reported twice by the one site that has it has frequency 1
C13_Witness ==
    /\ pc = "reported"
    /\ completeness_report.sites_analyzed = 5
    /\ \E name \in DiscoveredAnywhere :
         /\ completeness_report.overall_metrics.pattern_frequency[name] = 4
         /\ name \in completeness_report.overall_metrics.consistent_patterns
    /\ \E name \in DiscoveredAnywhere :
         /\ completeness_report.overall_metrics.pattern_frequency[name] = 1
         /\ \E i \in DOMAIN phase1_results : OccurrencesInSite(i, name) = 2
         /\ name \notin completeness_report.overall_metrics.consistent_patterns

\* aggregate completeness in percent, and the band it falls in
AggregateCompleteness ==
    IF RequiredSet = {} THEN Rat(0, 1)
    ELSE Rat(100 * Cardinality(DiscoveredAnywhere \cap RequiredSet),
             Cardinality(RequiredSet))
AggregateBand ==
    IF RatGeqInt(AggregateCompleteness, 95) THEN "EXCELLENT"
    ELSE IF RatGeqInt(AggregateCompleteness, 90) THEN "GOOD"
    ELSE "NEEDS_IMPROVEMENT"

\* C14: the verdict of a completeness evaluation is the band of aggregate
\* completeness: EXCELLENT from 95, GOOD from 90 to below 95,
\* NEEDS_IMPROVEMENT below 90, in the report of evaluate-completeness.py and
\* in the summary of evaluate-phase2-completeness.py.
C14_VerdictIsBandOfAggregate ==
    /\ pc = "reported" => completeness_report.test_result = AggregateBand
    /\ pc = "evaluated" =>
         phase2_summary(evaluation)
           = (IF AggregateBand = "NEEDS_IMPROVEMENT" THEN "NEEDS IMPROVEMENT"
              ELSE AggregateBand)

\* C15: with an empty required set the evaluation reports completeness 0
\* together with a configuration-error indication: a verdict outside the
\* three quality bands or a field that flags the empty reference.
C15_EmptyReferenceIsFlagged ==
    /\ (pc = "reported" /\ RequiredSet = {}) =>
         /\ completeness_report.overall_metrics.overall_completeness = Rat(0, 1)
         /\ \/ completeness_report.test_result
                 \notin {"EXCELLENT", "GOOD", "NEEDS_IMPROVEMENT"}
            \/ \E f \in DOMAIN completeness_report :
                 f \notin {"cms_type", "sites_analyzed", "required_patterns_count",
                           "site_results", "overall_metrics", "test_result"}
    /\ (pc = "evaluated" /\ RequiredSet = {}) =>
         /\ evaluation.average_completeness = Rat(0, 1)
         /\ \/ phase2_summary(evaluation)
                 \notin {"EXCELLENT", "GOOD", "NEEDS IMPROVEMENT"}
            \/ \E f \in DOMAIN evaluation :
                 f \notin {"cms", "total_sites", "expected_patterns",
                           "discriminator_patterns", "site_results",
                           "average_completeness",
                           "average_discriminator_completeness"}


(***************************************************************************)
(* verify-patterns.py: the matchers and verify_pattern                     *)
(*                                                                         *)
(* A field of a pattern record is a JSON value that need not be a string:  *)
(* it is [str |-> s], [null |-> TRUE] (None) or [num |-> n].  The headers  *)
(* of the collected data are [dict |-> <<<<name, value>>, ...>>] or, in a  *)
(* malformed file, [list |-> ...].  A matcher returns [verified |-> b] or  *)
(* [error |-> message] when it raises.                                     *)
(***************************************************************************)

\* sub in s
Contains(s, sub) ==
    \E i \in 0..(Len(s) - Len(sub)) : SubSeq(s, i + 1, i + Len(sub)) = sub

\* str(v)
py_str(v) ==
    IF "str" \in DOMAIN v THEN v.str
    ELSE IF "null" \in DOMAIN v THEN "None"
    ELSE ToString(v.num)

\* str(pattern.get('value', ''))
pattern_value_of(pattern) == py_str(Get(pattern, "value", [str |-> ""]))

\* the message of the AttributeError of v.lower() for a v that is no string
no_lower_message(v) ==
    IF "null" \in DOMAIN v THEN "'NoneType' object has no attribute 'lower'"
    ELSE "'int' object has no attribute 'lower'"

\* pattern.get(field, '').lower() raises
lower_raises(pattern, field) ==
    field \in DOMAIN pattern /\ "str" \notin DOMAIN pattern[field]

\* pattern.get(field, '').lower() when it does not raise
lower_field(pattern, field) == Lower(Get(pattern, field, [str |-> ""]).str)

\* data.get('data', {})
data_section(data) == Get(data, "data", <<>>)

\* data.get('data', {}).get('html', '')
html_of(data) == Get(data_section(data), "html", "")

\* data.get('data', {}).get(kind, {}).get(part, [])
resource_list(data, kind, part) ==
    Get(Get(data_section(data), kind, <<>>), part, <<>>)

\* any(value in item for item in items)
AnyContains(items, value) == \E i \in DOMAIN items : Contains(items[i], value)

\* no '>' in s[from..to]
NoTagEnd(s, from, to) == \A k \in from..to : SubSeq(s, k, k) # ">"

\* s[at..] starts with word, compared case-insensitively (lowered is
\* s.lower(), word is in lower case)
StartsAt(lowered, at, word) ==
    /\ at + Len(word) - 1 <= Len(lowered)
    /\ SubSeq(lowered, at, at + Len(word) - 1) = word

IsQuote(c) == c = "\"" \/ c = "'"

\* the positions where re.IGNORECASE matches name=["']generator["']
GeneratorNamePositions(html, lowered) ==
    {p \in 1..(Len(html) - 15) :
        /\ StartsAt(lowered, p, "name=")
        /\ IsQuote(SubSeq(html, p + 5, p + 5))
        /\ StartsAt(lowered, p + 6, "generator")
        /\ IsQuote(SubSeq(html, p + 15, p + 15))}

\* the positions c where content=["'] ends and [^"']+["'] matches: a
\* non-empty run without quotes that a quote closes
ContentPositions(html, lowered) ==
    {c \in 10..Len(html) :
        /\ StartsAt(lowered, c - 9, "content=")
        /\ IsQuote(SubSeq(html, c - 1, c - 1))
        /\ ~IsQuote(SubSeq(html, c, c))
        /\ \E e \in (c + 1)..Len(html) : IsQuote(SubSeq(html, e, e))}

\* the group ([^"']+) captured at c: up to the next quote
CapturedContent(html, c) ==
    SubSeq(html, c,
           (CHOOSE e \in (c + 1)..Len(html) :
               /\ IsQuote(SubSeq(html, e, e))
               /\ \A k \in c..(e - 1) : ~IsQuote(SubSeq(html, k, k))) - 1)

\* meta_pattern.findall(html) for
\* <meta[^>]*name=["']generator["'][^>]*content=["']([^"']+)["'] : the
\* contents captured by the matches (a tag of the modelled HTML has at most
\* one generator name and one content attribute, so each <meta has at most
\* one match)
generator_contents(html, lowered) ==
    {CapturedContent(html, c) :
        c \in {q \in ContentPositions(html, lowered) :
                 \E p \in GeneratorNamePositions(html, lowered) :
                    /\ p + 16 <= q - 9
                    /\ NoTagEnd(html, p + 16, q - 10)
                    /\ \E i \in 1..(p - 5) :
                         /\ StartsAt(lowered, i, "<meta")
                         /\ NoTagEnd(html, i + 5, p - 1)}}

\* bool(re.compile(rf'<meta[^>]*{re.escape(value)}[^>]*>', re.IGNORECASE)
\*          .search(html)) with lowered = html.lower(), value in lower case
meta_tag_search(html, lowered, value) ==
    \E i \in 1..Len(html) :
        /\ StartsAt(lowered, i, "<meta")
        /\ \E j \in (i + 5)..(Len(html) - Len(value) + 1) :
             /\ NoTagEnd(html, i + 5, j - 1)
             /\ SubSeq(lowered, j, j + Len(value) - 1) = value
             /\ \E k \in (j + Len(value))..Len(html) : SubSeq(html, k, k) = ">"

verify_meta_pattern(data, pattern) ==
    IF html_of(data) = "" THEN [verified |-> FALSE]
    ELSE IF lower_raises(pattern, "name")
    THEN [error |-> no_lower_message(pattern.name)]
    ELSE IF Contains(lower_field(pattern, "name"), "generator")
    THEN [verified |->
             \E match \in generator_contents(html_of(data), Lower(html_of(data))) :
                 Contains(Lower(match), Lower(pattern_value_of(pattern)))]
    ELSE [verified |-> meta_tag_search(html_of(data), Lower(html_of(data)),
                                       Lower(pattern_value_of(pattern)))]

verify_javascript_pattern(data, pattern) ==
    [verified |->
        \/ AnyContains(resource_list(data, "javascript", "inline"), pattern_value_of(pattern))
        \/ AnyContains(resource_list(data, "javascript", "external"), pattern_value_of(pattern))
        \/ Contains(html_of(data), pattern_value_of(pattern))]

verify_css_pattern(data, pattern) ==
    [verified |->
        \/ AnyContains(resource_list(data, "css", "inline"), pattern_value_of(pattern))
        \/ AnyContains(resource_list(data, "css", "external"), pattern_value_of(pattern))
        \/ Contains(html_of(data), pattern_value_of(pattern))]

\* the structure matcher with the fallback to the HTML that the javascript
\* and css matchers have
verify_structure_pattern_with_html_fallback(data, pattern) ==
    [verified |->
        \/ AnyContains(Get(data_section(data), "urls", <<>>), pattern_value_of(pattern))
        \/ AnyContains(resource_list(data, "javascript", "external")
                         \o resource_list(data, "css", "external"),
                       pattern_value_of(pattern))
        \/ Contains(html_of(data), pattern_value_of(pattern))]

verify_structure_pattern(data, pattern) ==
    [verified |->
        \/ AnyContains(Get(data_section(data), "urls", <<>>), pattern_value_of(pattern))
        \/ AnyContains(resource_list(data, "javascript", "external")
                         \o resource_list(data, "css", "external"),
                       pattern_value_of(pattern))]

\* data.get('data', {}).get('headers', {})
headers_of(data) == Get(data_section(data), "headers", [dict |-> <<>>])

verify_header_pattern(data, pattern) ==
    IF lower_raises(pattern, "name")
    THEN [error |-> no_lower_message(pattern.name)]
    ELSE IF "dict" \notin DOMAIN headers_of(data)
    THEN [error |-> "'list' object has no attribute 'items'"]
    ELSE [verified |->
             \E i \in DOMAIN headers_of(data).dict :
                \/ Contains(Lower(headers_of(data).dict[i][1]),
                            lower_field(pattern, "name"))
                \/ Contains(headers_of(data).dict[i][2], pattern_value_of(pattern))]

\* json.dumps of a str (the modelled strings are ASCII)
RECURSIVE json_escape(_)
json_escape(s) ==
    IF s = "" THEN ""
    ELSE (IF SubSeq(s, 1, 1) = "\"" THEN "\\\""
          ELSE IF SubSeq(s, 1, 1) = "\\" THEN "\\\\"
          ELSE SubSeq(s, 1, 1)) \o json_escape(SubSeq(s, 2, Len(s)))

json_string(s) == "\"" \o json_escape(s) \o "\""

json_list(items) ==
    "[" \o Join([i \in DOMAIN items |-> json_string(items[i])], ", ") \o "]"

\* a dict of the members that are present ("" stands for an absent key)
json_object(members) ==
    "{" \o Join(SelectSeq(members, LAMBDA m : m # ""), ", ") \o "}"

\* the inline and external lists of the javascript or css section
json_resources(section) ==
    json_object(
        <<IF "inline" \in DOMAIN section
          THEN "\"inline\": " \o json_list(section.inline) ELSE "",
          IF "external" \in DOMAIN section
          THEN "\"external\": " \o json_list(section.external) ELSE "">>)

json_headers(headers) ==
    IF "dict" \in DOMAIN headers
    THEN json_object([i \in DOMAIN headers.dict |->
             json_string(headers.dict[i][1]) \o ": " \o json_string(headers.dict[i][2])])
    ELSE "[" \o Join([i \in DOMAIN headers.list |->
                         json_list(headers.list[i])], ", ") \o "]"

\* json.dumps(collected_data.get('data', {})), the keys in the order the
\* collector writes them
json_dumps_data(section) ==
    json_object(
        <<IF "html" \in DOMAIN section
          THEN "\"html\": " \o json_string(section.html) ELSE "",
          IF "javascript" \in DOMAIN section
          THEN "\"javascript\": " \o json_resources(section.javascript) ELSE "",
          IF "css" \in DOMAIN section
          THEN "\"css\": " \o json_resources(section.css) ELSE "",
          IF "urls" \in DOMAIN section
          THEN "\"urls\": " \o json_list(section.urls) ELSE "",
          IF "headers" \in DOMAIN section
          THEN "\"headers\": " \o json_headers(section.headers) ELSE "">>)

\* the generic verification of the else branch
verify_generic(collected_data, pattern) ==
    [verified |-> Contains(json_dumps_data(data_section(collected_data)),
                           pattern_value_of(pattern))]

\* the if/elif chain of verify_pattern
matcher_result(collected_data, pattern, pattern_type, pattern_location) ==
    IF pattern_type = "meta" \/ Contains(pattern_location, "meta")
    THEN verify_meta_pattern(collected_data, pattern)
    ELSE IF pattern_type = "javascript" \/ Contains(pattern_location, "script")
    THEN verify_javascript_pattern(collected_data, pattern)
    ELSE IF pattern_type = "css" \/ Contains(pattern_location, "style")
    THEN verify_css_pattern(collected_data, pattern)
    ELSE IF pattern_type = "structure" \/ Contains(pattern_location, "url")
    THEN verify_structure_pattern(collected_data, pattern)
    ELSE IF pattern_type = "header" \/ Contains(pattern_location, "header")
    THEN verify_header_pattern(collected_data, pattern)
    ELSE verify_generic(collected_data, pattern)

\* the try block: the pair returned for the matcher's result
verify_return(result) ==
    IF "error" \in DOMAIN result
    THEN [raised |-> FALSE, verified |-> FALSE,
          reason |-> "Verification error: " \o result.error]
    ELSE [raised |-> FALSE, verified |-> result.verified,
          reason |-> IF result.verified THEN "Found in data"
                     ELSE "Not found in collected data"]

\* verify_pattern: lines 124 and 125 are outside the try block, so a type
\* or location that is no string raises to the caller
verify_pattern(collected_data, pattern) ==
    IF lower_raises(pattern, "type")
    THEN [raised |-> TRUE, error |-> no_lower_message(pattern.type)]
    ELSE IF lower_raises(pattern, "location")
    THEN [raised |-> TRUE, error |-> no_lower_message(pattern.location)]
    ELSE verify_return(matcher_result(collected_data, pattern,
                                      lower_field(pattern, "type"),
                                      lower_field(pattern, "location")))


(***************************************************************************)
(* Specification of one call of verify_pattern                             *)
(***************************************************************************)

\* Scenario C: a generator meta tag
GeneratorHtml == "<meta name=\"generator\" content=\"WordPress 6.2\">"

\* the same tag with the attributes in the other order
ContentFirstHtml == "<meta content='WordPress 6.2' name='generator'>"

\* a page with a script, a style sheet and URLs, and no generator tag
ResourceData ==
    [html       |-> "<html><meta name='viewport' content='width'><body class='wp-site'></html>",
     javascript |-> [inline   |-> <<"var wp = 'wp-content';">>,
                     external |-> <<"/wp-includes/js/jquery.js">>],
     css        |-> [inline   |-> <<".nginx-theme { color: red }">>,
                     external |-> <<"/wp-content/themes/style.css">>],
     urls       |-> <<"/wp-json/", "/wp-admin/">>,
     headers    |-> [dict |-> <<<<"X-Powered-By", "PHP/8.1">>, <<"Server", "nginx">>>>]]

Evidences ==
    {[data |-> [html |-> GeneratorHtml]],
     [data |-> [html |-> ContentFirstHtml]],
     \* Scenario D: the single header Server: nginx
     [data |-> [headers |-> [dict |-> <<<<"Server", "nginx">>>>]]],
     [data |-> ResourceData],
     \* a file whose headers are a list of pairs
     [data |-> [html |-> GeneratorHtml,
                headers |-> [list |-> <<<<"Server", "nginx">>>>]]],
     \* a file without collected data
     [url |-> "u1"]}

VerifyTypes ==
    {[str |-> "meta"], [str |-> "javascript"], [str |-> "css"],
     [str |-> "structure"], [str |-> "header"], [str |-> "Header"],
     [str |-> "unknown"], [null |-> TRUE]}

VerifyLocations == {[str |-> "head > meta"], [str |-> "response headers"], [null |-> TRUE]}

VerifyNames ==
    {[str |-> "meta_generator_wordpress"], [str |-> "x-powered-by"],
     [str |-> "Server"], [str |-> "serve"], [str |-> ""], [null |-> TRUE]}

VerifyValues ==
    {[str |-> "WordPress"], [str |-> "wordpress"], [str |-> "PleskLin"],
     [str |-> "nginx"], [str |-> "wp-content"], [str |-> "viewport"],
     [str |-> "wp-admin"], [str |-> ""], [num |-> 8]}

\* the pattern with the given optional fields (absent when not chosen)
PatternWith(fields, type, location, name, value) ==
    [f \in fields |->
        IF f = "type" THEN type
        ELSE IF f = "location" THEN location
        ELSE IF f = "name" THEN name
        ELSE value]

VerifyPatterns ==
    {PatternWith(fields, t, l, n, v) :
        fields \in SUBSET {"type", "location", "name", "value"},
        t \in VerifyTypes, l \in VerifyLocations, n \in VerifyNames, v \in VerifyValues}

InitVerify ==
    /\ pc = "input"
    /\ evidence \in Evidences
    /\ claimed_pattern \in VerifyPatterns
    /\ verify_outcome = <<>>
    /\ IdleFp /\ IdleNaming /\ IdleReport /\ IdleComp /\ IdleCompReport /\ IdleAccuracy

\* verify_pattern returns its pair
VerifyPatternReturns ==
    /\ pc = "input"
    /\ ~verify_pattern(evidence, claimed_pattern).raised
    /\ verify_outcome' = verify_pattern(evidence, claimed_pattern)
    /\ pc' = "returned"
    /\ UNCHANGED <<evidence, claimed_pattern, fpVars, namingVars, reportVars,
                   compVars, compReportVars, accuracyVars>>

\* verify_pattern raises to its caller
VerifyPatternRaises ==
    /\ pc = "input"
    /\ verify_pattern(evidence, claimed_pattern).raised
    /\ verify_outcome' = verify_pattern(evidence, claimed_pattern)
    /\ pc' = "raised"
    /\ UNCHANGED <<evidence, claimed_pattern, fpVars, namingVars, reportVars,
                   compVars, compReportVars, accuracyVars>>

NextVerify == VerifyPatternReturns \/ VerifyPatternRaises

SpecVerify == InitVerify /\ [][NextVerify]_vars


\* C16: verify_pattern never raises to its caller: every call ends with a
\* pair (verified, reason), and a fault gives verified = False with a
\* reason.
C16_VerifyNeverRaises ==
    pc \in {"returned", "raised"} =>
        /\ ~verify_outcome.raised
        /\ verify_outcome.verified \in BOOLEAN
        /\ verify_outcome.reason # ""

KnownTypes == {"meta", "javascript", "css", "structure", "header"}

\* the pattern has a type that is one of the five known types
HasKnownType ==
    /\ "type" \in DOMAIN claimed_pattern
    /\ "str" \in DOMAIN claimed_pattern.type
    /\ Lower(claimed_pattern.type.str) \in KnownTypes

\* the result of the matcher of the given type alone
TypeMatcher(pattern_type) ==
    IF pattern_type = "meta" THEN verify_meta_pattern(evidence, claimed_pattern)
    ELSE IF pattern_type = "javascript"
    THEN verify_javascript_pattern(evidence, claimed_pattern)
    ELSE IF pattern_type = "css" THEN verify_css_pattern(evidence, claimed_pattern)
    ELSE IF pattern_type = "structure"
    THEN verify_structure_pattern(evidence, claimed_pattern)
    ELSE verify_header_pattern(evidence, claimed_pattern)

\* C17: a pattern whose type is meta, javascript, css, structure or header
\* is checked by the matcher of that type, whatever its location says.
C17_KnownTypeSelectsMatcher ==
    (pc = "returned" /\ HasKnownType) =>
        verify_outcome = verify_return(TypeMatcher(Lower(claimed_pattern.type.str)))

\* the pattern is well formed: a known type in lower case, a value that is
\* a non-empty string, a name that is a string if there is one, and no
\* location, so that the type alone selects the matcher
WellFormedTypedPattern ==
    /\ HasKnownType
    /\ claimed_pattern.type.str \in KnownTypes
    /\ "location" \notin DOMAIN claimed_pattern
    /\ "value" \in DOMAIN claimed_pattern
    /\ "str" \in DOMAIN claimed_pattern.value
    /\ claimed_pattern.value.str # ""
    /\ "name" \in DOMAIN claimed_pattern => "str" \in DOMAIN claimed_pattern.name

\* some <meta ...> tag of the HTML contains the value
MetaTagContains(html, value) ==
    \E i \in 1..Len(html) : \E k \in (i + 5)..Len(html) :
        /\ SubSeq(html, i, i + 4) = "<meta"
        /\ SubSeq(html, k, k) = ">"
        /\ NoTagEnd(html, i, k - 1)
        /\ Contains(SubSeq(html, i, k), value)

\* the evidence holds the value where the matcher of the type is designed
\* to search
DesignedLocationContains(pattern_type, value) ==
    IF pattern_type = "meta" THEN MetaTagContains(html_of(evidence), value)
    ELSE IF pattern_type = "javascript"
    THEN \/ AnyContains(resource_list(evidence, "javascript", "inline"), value)
         \/ AnyContains(resource_list(evidence, "javascript", "external"), value)
    ELSE IF pattern_type = "css"
    THEN \/ AnyContains(resource_list(evidence, "css", "inline"), value)
         \/ AnyContains(resource_list(evidence, "css", "external"), value)
    ELSE IF pattern_type = "structure"
    THEN AnyContains(Get(data_section(evidence), "urls", <<>>), value)
    ELSE /\ "dict" \in DOMAIN headers_of(evidence)
         /\ \E i \in DOMAIN headers_of(evidence).dict :
               Contains(headers_of(evidence).dict[i][2], value)

\* C18: no false negatives for exact matches: when the evidence literally
\* contains the value of a well-formed pattern in the location its type's
\* matcher is designed to search, verify_pattern returns verified = True.
C18_NoFalseNegativeForExactMatch ==
    (/\ pc = "returned"
     /\ WellFormedTypedPattern
     /\ DesignedLocationContains(claimed_pattern.type.str, claimed_pattern.value.str))
        => verify_outcome.verified

\* some collected header has the pattern's name, compared case-insensitively,
\* or a value that contains the pattern's value
SomeHeaderMatches ==
    \E i \in DOMAIN headers_of(evidence).dict :
        \/ /\ "name" \in DOMAIN claimed_pattern
           /\ Lower(claimed_pattern.name.str) = Lower(headers_of(evidence).dict[i][1])
        \/ Contains(headers_of(evidence).dict[i][2], pattern_value_of(claimed_pattern))

\* C19: a header pattern is verified if and only if some collected header
\* has its name (case-insensitively) or a value containing its value; with
\* no such header the result is verified = False, also when the name is
\* empty or missing.
C19_HeaderVerifiedIffHeaderMatches ==
    (/\ pc = "returned"
     /\ HasKnownType /\ claimed_pattern.type.str = "header"
     /\ "location" \notin DOMAIN claimed_pattern
     /\ "name" \in DOMAIN claimed_pattern => "str" \in DOMAIN claimed_pattern.name
     /\ "dict" \in DOMAIN headers_of(evidence))
        => (verify_outcome.verified <=> SomeHeaderMatches)


(***************************************************************************)
(* verify-patterns.py: analyze_pattern_accuracy and main                   *)
(***************************************************************************)

NoStats == [total |-> 0, verified |-> 0]

\* stats[key][field] += 1, the entry created first when it is missing
bump(stats, key, field) ==
    [k \in DOMAIN stats \cup {key} |->
        IF k = key THEN [Get(stats, key, NoStats) EXCEPT ![field] = @ + 1]
        ELSE stats[k]]

\* if key not in stats: stats[key] = {'total': 0, 'verified': 0}
ensure(stats, key) ==
    [k \in DOMAIN stats \cup {key} |-> Get(stats, k, NoStats)]

\* a pattern entry of an analysis-result file that is a JSON object
is_object(pattern) == "not_an_object" \notin DOMAIN pattern

\* pattern.get('type', 'unknown')
pattern_type_of(pattern) == Get(pattern, "type", [str |-> "unknown"])

\* results['total_patterns'] += 1; results['cms_accuracy'][cms_name]['total'] += 1
count_pattern(results, cms_name) ==
    [results EXCEPT !.total_patterns = @ + 1,
                    !.cms_accuracy = bump(@, cms_name, "total")]

\* results['pattern_type_accuracy'][pattern_type]['total'] += 1
count_type(results, pattern_type) ==
    [results EXCEPT !.pattern_type_accuracy = bump(@, pattern_type, "total")]

\* the branches of "if verified:" after verify_pattern returned
record_outcome(results, url, cms_name, pattern, outcome) ==
    IF outcome.verified
    THEN [results EXCEPT
            !.verified_patterns = @ + 1,
            !.cms_accuracy = bump(@, cms_name, "verified"),
            !.pattern_type_accuracy = bump(@, pattern_type_of(pattern), "verified")]
    ELSE [results EXCEPT
            !.false_positives =
                Append(@, [url     |-> url,
                           pattern |-> Get(pattern, "name", [str |-> "unknown"]),
                           type    |-> pattern_type_of(pattern),
                           reason  |-> outcome.reason])]

\* one iteration of the loop over the patterns of a file, outcome being
\* what verify_pattern(data, pattern) does: the results so far, and whether
\* the iteration raised (pattern.get on a pattern that is no object, or
\* verify_pattern raising)
pattern_step(results, url, cms_name, pattern, outcome) ==
    IF ~is_object(pattern)
    THEN [results |-> count_pattern(results, cms_name), raised |-> TRUE]
    ELSE IF outcome.raised
    THEN [results |-> count_type(count_pattern(results, cms_name),
                                 pattern_type_of(pattern)),
          raised |-> TRUE]
    ELSE [results |-> record_outcome(count_type(count_pattern(results, cms_name),
                                                pattern_type_of(pattern)),
                                     url, cms_name, pattern, outcome),
          raised |-> FALSE]

process_pattern(results, data, url, cms_name, pattern) ==
    pattern_step(results, url, cms_name, pattern, verify_pattern(data, pattern))

\* the loop over the patterns; an exception leaves the loop and is caught
\* by the "except Exception" of the file
RECURSIVE process_patterns(_, _, _, _, _)
RECURSIVE after_pattern(_, _, _, _, _)
process_patterns(results, data, url, cms_name, patterns) ==
    IF patterns = <<>> THEN results
    ELSE after_pattern(process_pattern(results, data, url, cms_name, Head(patterns)),
                       data, url, cms_name, Tail(patterns))

after_pattern(step, data, url, cms_name, patterns) ==
    IF step.raised THEN step.results
    ELSE process_patterns(step.results, data, url, cms_name, patterns)

\* files_processed += 1; results['total_files'] += 1; the cms_accuracy
\* entry is created
count_file(results, cms_name) ==
    [results EXCEPT !.total_files = @ + 1,
                    !.cms_accuracy = ensure(@, cms_name)]

\* the pattern objects built for the keyPatterns of a learn-shape file
learn_patterns(data) ==
    [i \in DOMAIN Get(data.analysis, "keyPatterns", <<>>) |->
        [name |-> [str |-> data.analysis.keyPatterns[i]], type |-> [str |-> "unknown"]]]

\* the body of the loop over the files
process_file(results, file) ==
    IF file.name = "index.json" THEN results
    ELSE IF is_learn_shape(file.data)
    THEN process_patterns(count_file(results, file.data.analysis.technologyDetected),
                          file.data,
                          Get(Get(file.data, "inputData", <<>>), "url", "unknown"),
                          file.data.analysis.technologyDetected,
                          learn_patterns(file.data))
    ELSE IF is_analysis_result_shape(file.data)
    THEN process_patterns(
             count_file(results, Get(Get(file.data, "detectedCMS", <<>>), "name", "unknown")),
             file.data,
             Get(file.data, "url", "unknown"),
             Get(Get(file.data, "detectedCMS", <<>>), "name", "unknown"),
             file.data.analysisResult.patterns)
    ELSE results

\* the loop over the files; limit = 0 stands for no limit (None)
RECURSIVE process_files(_, _, _)
process_files(results, files, limit) ==
    IF files = <<>> THEN results
    ELSE IF Head(files).name # "index.json" /\ limit # 0 /\ results.total_files >= limit
    THEN results
    ELSE process_files(process_file(results, Head(files)), Tail(files), limit)

\* stats['accuracy'] = stats['verified'] / stats['total'] * 100 where total > 0
with_accuracy(stats) ==
    [k \in DOMAIN stats |->
        IF stats[k].total > 0
        THEN [total |-> stats[k].total, verified |-> stats[k].verified,
              accuracy |-> Rat(100 * stats[k].verified, stats[k].total)]
        ELSE stats[k]]

\* the percentages computed after the loop
percentages(results) ==
    [total_files      |-> results.total_files,
     total_patterns   |-> results.total_patterns,
     verified_patterns |-> results.verified_patterns,
     false_positives  |-> results.false_positives,
     pattern_type_accuracy |-> with_accuracy(results.pattern_type_accuracy),
     cms_accuracy     |-> with_accuracy(results.cms_accuracy),
     overall_accuracy |->
         IF results.total_patterns > 0
         THEN Rat(100 * results.verified_patterns, results.total_patterns)
         ELSE Rat(0, 1),
     false_positive_rate |->
         IF results.total_patterns > 0
         THEN Rat(100 * (results.total_patterns - results.verified_patterns),
                  results.total_patterns)
         ELSE Rat(0, 1)]

analyze_pattern_accuracy(files, limit) ==
    percentages(
        process_files([total_files |-> 0, total_patterns |-> 0,
                       verified_patterns |-> 0, false_positives |-> <<>>,
                       pattern_type_accuracy |-> <<>>, cms_accuracy |-> <<>>],
                      files, limit))

\* sorted(results['pattern_type_accuracy'].items()) of print_accuracy_report
\* raises TypeError when two keys are of different kinds (str, None, int)
report_raises(results) ==
    \E a, b \in DOMAIN results.pattern_type_accuracy : DOMAIN a # DOMAIN b

\* the status main returns: 1 from "except Exception" or for a
\* false_positive_rate above 5
accuracy_exit_code(results, quiet) ==
    IF ~quiet /\ report_raises(results) THEN 1
    ELSE IF ~RatLeq(results.false_positive_rate, Rat(5, 1)) THEN 1
    ELSE 0


(***************************************************************************)
(* Specification of verify-patterns.py: the data directory receives its    *)
(* files, then main analyses them.                                         *)
(***************************************************************************)

MaxDataFiles == 2

\* a learn-shape file with n key patterns and a generator meta tag
LearnDataFile(n) ==
    [name |-> "learn.json",
     data |-> [analysis  |-> [technologyDetected |-> "WordPress",
                              keyPatterns |-> [i \in 1..n |-> RequiredName(i)]],
               inputData |-> [url |-> "u1"],
               data      |-> [html |-> GeneratorHtml]]]

\* an analysis-result file with the given structured patterns, collected
\* from a site that answers with the single header Server: nginx
AnalysisDataFile(patterns) ==
    [name |-> "analysis.json",
     data |-> [url            |-> "u2",
               detectedCMS    |-> [name |-> "Drupal"],
               analysisResult |-> [patterns |-> patterns],
               data |-> [headers |-> [dict |-> <<<<"Server", "nginx">>>>]]]]

ServerHeaderPattern ==
    [type |-> [str |-> "header"], name |-> [str |-> "server"], value |-> [str |-> "nginx"]]

\* a header pattern the evidence does not hold
PleskPattern ==
    [type |-> [str |-> "header"], name |-> [str |-> "x-powered-by"],
     value |-> [str |-> "PleskLin"]]

NullTypePattern == [type |-> [null |-> TRUE], name |-> [str |-> "server"]]

\* a learn file of 18 key patterns with one false positive gives a rate of
\* 5%; a learn file of 24 with 25 verified patterns and one false positive
\* gives 2%
DataFiles ==
    {LearnDataFile(100 \div 5 - 2),
     LearnDataFile((100 \div 2 - 2) \div 2),
     AnalysisDataFile(<<ServerHeaderPattern, PleskPattern>>),
     AnalysisDataFile([i \in 1..((100 \div 2) \div 2 + 1) |->
                          IF i = 1 THEN PleskPattern ELSE ServerHeaderPattern]),
     AnalysisDataFile(<<ServerHeaderPattern, NullTypePattern, ServerHeaderPattern>>),
     AnalysisDataFile(<<[not_an_object |-> "server"], PleskPattern>>),
     [name |-> "other.json", data |-> [results |-> <<>>]],
     [name |-> "index.json", data |-> AnalysisDataFile(<<PleskPattern>>).data]}

InitAccuracy ==
    /\ pc = "collecting"
    /\ data_files = <<>>
    /\ accuracy_results = <<>>
    /\ IdleFp /\ IdleNaming /\ IdleReport /\ IdleComp /\ IdleCompReport /\ IdleVerify

\* one more *.json file in data_dir; a directory holds one index.json at
\* most, the other names stand for any other file name
PlaceDataFile ==
    /\ pc = "collecting" /\ Len(data_files) < MaxDataFiles
    /\ \E file \in DataFiles :
         /\ file.name = "index.json" =>
                \A i \in 1..Len(data_files) : data_files[i].name # "index.json"
         /\ data_files' = Append(data_files, file)
    /\ UNCHANGED <<pc, accuracy_results, fpVars, namingVars, reportVars, compVars,
                   compReportVars, verifyVars>>

\* main of verify-patterns.py with --limit (0: not given) and --quiet
AccuracyMain ==
    /\ pc = "collecting"
    /\ \E limit \in 0..1 :
         accuracy_results' = analyze_pattern_accuracy(data_files, limit)
    /\ \E quiet \in BOOLEAN :
         exit_code' = accuracy_exit_code(accuracy_results', quiet)
    /\ pc' = "analyzed"
    /\ UNCHANGED <<data_files, url_results, files_loaded, focus_phase2, report,
                   fpVars, namingVars, compVars, compReportVars, verifyVars>>

NextAccuracy == PlaceDataFile \/ AccuracyMain

SpecAccuracy == InitAccuracy /\ [][NextAccuracy]_vars

\* C20: overall_accuracy is 100 x verified_patterns / total_patterns and
\* false_positive_rate is 100 - overall_accuracy, also for a batch in
\* which no pattern was processed.
C20_RatesAreComplementary ==
    pc = "analyzed" =>
        /\ accuracy_results.total_patterns > 0 =>
             accuracy_results.overall_accuracy.num * accuracy_results.total_patterns
               = 100 * accuracy_results.verified_patterns
                     * accuracy_results.overall_accuracy.den
        /\ RatAdd(accuracy_results.overall_accuracy,
                  accuracy_results.false_positive_rate) = Rat(100, 1)

(***************************************************************************)
(* Properties of the accuracy counters                                     *)
(***************************************************************************)

\* the sum of one counter over the entries of a breakdown
RECURSIVE StatsSum(_, _, _)
StatsSum(stats, ks, field) ==
    IF ks = {} THEN 0
    ELSE LET k == CHOOSE x \in ks : TRUE
         IN stats[k][field] + StatsSum(stats, ks \ {k}, field)

BreakdownSum(stats, field) == StatsSum(stats, DOMAIN stats, field)

\* C21: every pattern counted in total_patterns is counted in
\* verified_patterns or recorded in false_positives with a reason, also when
\* handling it faults; the per-type and per-CMS counters sum to the totals.
C21_EveryPatternAccountedFor ==
    pc = "analyzed" =>
        /\ accuracy_results.total_patterns
             = accuracy_results.verified_patterns
               + Len(accuracy_results.false_positives)
        /\ \A i \in DOMAIN accuracy_results.false_positives :
               accuracy_results.false_positives[i].reason # ""
        /\ BreakdownSum(accuracy_results.pattern_type_accuracy, "total")
             = accuracy_results.total_patterns
        /\ BreakdownSum(accuracy_results.cms_accuracy, "total")
             = accuracy_results.total_patterns
        /\ BreakdownSum(accuracy_results.pattern_type_accuracy, "verified")
             = accuracy_results.verified_patterns
        /\ BreakdownSum(accuracy_results.cms_accuracy, "verified")
             = accuracy_results.verified_patterns

\* the "Test Result" line of print_accuracy_report
accuracy_test_result(results) ==
    IF RatLeq(results.false_positive_rate, Rat(2, 1)) THEN "EXCELLENT"
    ELSE IF RatLeq(results.false_positive_rate, Rat(5, 1)) THEN "GOOD"
    ELSE "NEEDS_IMPROVEMENT"

\* the band of a false-positive rate: EXCELLENT up to 2%, GOOD up to 5%
FalsePositiveBand(rate) ==
    IF rate.num <= 2 * rate.den THEN "EXCELLENT"
    ELSE IF rate.num <= 5 * rate.den THEN "GOOD"
    ELSE "NEEDS_IMPROVEMENT"

\* C22: the verdict is the band of the false-positive rate (EXCELLENT iff
\* rate <= 2%, GOOD iff 2% < rate <= 5%, NEEDS_IMPROVEMENT iff rate > 5%),
\* main returns a non-zero status exactly in the NEEDS_IMPROVEMENT band, and
\* the verdict is part of the returned results.
C22_VerdictIsBandAndData ==
    pc = "analyzed" =>
        /\ accuracy_test_result(accuracy_results)
             = FalsePositiveBand(accuracy_results.false_positive_rate)
        /\ exit_code # 0 <=>
             FalsePositiveBand(accuracy_results.false_positive_rate) = "NEEDS_IMPROVEMENT"
        /\ "test_result" \in DOMAIN accuracy_results
        /\ accuracy_results.test_result
             = FalsePositiveBand(accuracy_results.false_positive_rate)

(***************************************************************************)
(* The status returned by the three evaluators                             *)
(***************************************************************************)

\* main of evaluate-consistency.py has returned
ConsistencyMainDone ==
    pc = "no_results" \/ (pc = "reported" /\ report # <<>>)

\* main of evaluate-completeness.py has returned
CompletenessMainDone ==
    pc \in {"no_results", "failed"} \/ (pc = "reported" /\ completeness_report # <<>>)

\* success only with records evaluated and a verdict of GOOD or EXCELLENT
StatusFollows(records_loaded, verdict) ==
    /\ (~records_loaded \/ verdict = "NEEDS_IMPROVEMENT") => exit_code # 0
    /\ exit_code = 0 => (records_loaded /\ verdict \in {"GOOD", "EXCELLENT"})

\* C23: each evaluator returns a non-success status whenever its verdict is
\* NEEDS_IMPROVEMENT or no record of a recognized shape was loaded, and
\* success only when records were evaluated and the verdict is GOOD or
\* EXCELLENT.
C23_StatusReflectsVerdictAndInput ==
    /\ ConsistencyMainDone =>
          StatusFollows(url_results.order # <<>>,
                        IF report = <<>> THEN "" ELSE report.test_result)
    /\ CompletenessMainDone =>
          StatusFollows(phase1_results # <<>>,
                        IF completeness_report = <<>> THEN ""
                        ELSE completeness_report.test_result)
    /\ pc = "analyzed" =>
          StatusFollows(accuracy_results.total_files > 0,
                        accuracy_test_result(accuracy_results))

(***************************************************************************)
(* Malformed records                                                       *)
(***************************************************************************)

\* the loaded site results whose patterns all carry a name
WellFormedResults ==
    SelectSeq(phase1_results, LAMBDA result : ~has_unnamed_pattern(result))

\* the scores the well-formed records get when evaluated without the others
ScoresAlone ==
    generate_report(CmsType, WellFormedResults, reference_required).site_results

\* the entries of the report for the well-formed records, in order
ScoresInReport ==
    [i \in 1..Len(WellFormedResults) |->
        LET positions == {k \in DOMAIN phase1_results :
                              ~has_unnamed_pattern(phase1_results[k])}
            k == CHOOSE k \in positions :
                     Cardinality({j \in positions : j <= k}) = i
        IN completeness_report.site_results[k]]

\* C24: a malformed record never aborts a batch: with a record that carries
\* a pattern without a name among the loaded records, the evaluation still
\* produces a report, and every well-formed record is scored in it as it
\* is without the malformed one.
C24_MalformedRecordIsSkipped ==
    (pc \in {"reported", "failed"} /\ WellFormedResults # <<>>) =>
        /\ pc = "reported"
        /\ completeness_report # <<>>
        /\ ScoresInReport = ScoresAlone

(***************************************************************************)
(* Specification of one process that evaluates several batches: the caller *)
(* holds the inputs and the results of the calls it has made, supplies the *)
(* next batch and calls calculate_completeness, generate_report and        *)
(* calculate_naming_consistency in any order, any number of times. pc      *)
(* names the function that returned last ("session": none on this batch).  *)
(* The functions read no module-level variable and bind no default         *)
(* argument to a mutable value, so a call depends on its arguments only.   *)
(***************************************************************************)

\* the batches of the session: what the caller passes to the functions
SessionBatches ==
    {[discovered |-> {},
      required   |-> <<"meta_generator_wordpress", "script_jquery">>,
      all_results |-> <<phase1_learn_result(LearnSiteDocument)>>,
      reference  |-> NamedPatterns(1, NRequired \div 2),
      runs       |-> <<[patterns |-> <<>>], [patterns |-> <<>>]>>],
     [discovered |-> {"meta_generator_wordpress", "header_api_wordpress"},
      required   |-> <<"meta_generator_wordpress", "script_jquery",
                       "meta_generator_wordpress">>,
      all_results |-> <<phase1_learn_result(LearnSiteDocument),
                        phase1_analysis_result(AnalysisSiteDocument)>>,
      reference  |-> NamedPatterns(1, NRequired),
      runs       |-> <<[patterns |-> <<[name |-> "meta_generator_wordpress",
                                        type |-> "meta", location |-> "head",
                                        value |-> "WordPress"]>>],
                       [patterns |-> <<[name |-> "meta_generator_cms",
                                        type |-> "meta", location |-> "head",
                                        value |-> "WordPress"]>>]>>],
     [discovered |-> {"script_jquery"},
      required   |-> <<"script_jquery">>,
      all_results |-> <<phase1_analysis_result(AnalysisSiteDocument)>>,
      reference  |-> <<>>,
      runs       |-> <<[patterns |-> <<[name |-> "a"]>>],
                       [patterns |-> <<[name |-> "a"]>>],
                       [patterns |-> <<>>]>>]}

\* the caller binds its variables to the values of a batch
SessionHolds(batch) ==
    /\ discovered' = batch.discovered
    /\ required' = batch.required
    /\ phase1_results' = batch.all_results
    /\ reference_required' = batch.reference
    /\ runs' = batch.runs

InitSession ==
    /\ pc = "session"
    /\ \E batch \in SessionBatches :
         /\ discovered = batch.discovered
         /\ required = batch.required
         /\ phase1_results = batch.all_results
         /\ reference_required = batch.reference
         /\ runs = batch.runs
    /\ completeness_result = <<>>
    /\ completeness_report = <<>>
    /\ naming_result = <<>>
    /\ evaluation = <<>>
    /\ IdleFp /\ IdleReport /\ IdleVerify /\ IdleAccuracy

\* the caller turns to another batch; the results of the earlier calls stay
\* in its memory
SessionNextBatch ==
    /\ \E batch \in SessionBatches :
         /\ batch.runs # runs
         /\ SessionHolds(batch)
    /\ pc' = "session"
    /\ UNCHANGED <<completeness_result, completeness_report, naming_result,
                   evaluation, fpVars, reportVars, verifyVars, accuracyVars>>

\* discovered_patterns.intersection_update(required_set) in place of
\* intersection: the caller's set is narrowed by the call
SessionCalculateCompleteness_intersection_update ==
    /\ completeness_result' = calculate_completeness(discovered, required)
    /\ discovered' = discovered \cap SeqToSet(required)
    /\ pc' = "calculate_completeness"
    /\ UNCHANGED <<required, runs, naming_result, compReportVars,
                   fpVars, reportVars, verifyVars, accuracyVars>>

\* completeness, found, missing = calculate_completeness(discovered, required)
SessionCalculateCompleteness ==
    /\ completeness_result' = calculate_completeness(discovered, required)
    /\ pc' = "calculate_completeness"
    /\ UNCHANGED <<discovered, required, runs, naming_result, compReportVars,
                   fpVars, reportVars, verifyVars, accuracyVars>>

\* report = generate_report(cms_type, all_results, required_patterns)
SessionGenerateReport ==
    /\ completeness_report' =
         generate_report(CmsType, phase1_results, reference_required)
    /\ pc' = "generate_report"
    /\ UNCHANGED <<phase1_results, reference_required, evaluation, compVars,
                   namingVars, fpVars, reportVars, verifyVars, accuracyVars>>

\* score, inconsistent, common = calculate_naming_consistency(runs)
SessionNamingConsistency ==
    /\ naming_result' \in naming_return_values(naming_consistency(runs))
    /\ pc' = "calculate_naming_consistency"
    /\ UNCHANGED <<runs, compVars, compReportVars,
                   fpVars, reportVars, verifyVars, accuracyVars>>

NextSession ==
    \/ SessionNextBatch \/ SessionCalculateCompleteness
    \/ SessionGenerateReport \/ SessionNamingConsistency

SpecSession == InitSession /\ [][NextSession]_vars

\* the arguments the caller holds
SessionInputs == <<discovered, required, phase1_results, reference_required, runs>>

\* C25: evaluations carry no state between invocations and mutate none of
\* their inputs: a call leaves the required list, the site results and the
\* runs as they were, and the result of a call made after calls on other
\* batches is the result of that call alone.
C25_NoStateBetweenInvocations ==
    [][/\ pc' # "session" => SessionInputs' = SessionInputs
       /\ pc' = "calculate_completeness" =>
            completeness_result' = calculate_completeness(discovered', required')
       /\ pc' = "generate_report" =>
            completeness_report' =
              generate_report(CmsType, phase1_results', reference_required')
       /\ pc' = "calculate_naming_consistency" =>
            naming_result' \in naming_return_values(naming_consistency(runs'))]_vars

\* batch B has been evaluated after another batch: the result kept from the
\* earlier call of calculate_completeness differs from that of the batch in
\* hand, whose report and naming consistency have been computed
C25_Witness ==
    /\ pc = "generate_report"
    /\ completeness_result # <<>>
    /\ completeness_result # calculate_completeness(discovered, required)
    /\ naming_result \in naming_return_values(naming_consistency(runs))
    /\ completeness_report =
         generate_report(CmsType, phase1_results, reference_required)

(***************************************************************************)
(* Generator meta tags                                                     *)
(***************************************************************************)

\* the tag that opens at i closes at k
MetaTagSpan(html, lowered, i, k) ==
    /\ StartsAt(lowered, i, "<meta")
    /\ k > i + 4 /\ k <= Len(html)
    /\ SubSeq(html, k, k) = ">"
    /\ NoTagEnd(html, i + 5, k - 1)

\* the HTML has a meta tag with the attribute name="generator" and a
\* content attribute, in either order, whose content contains the value,
\* letter case ignored
GeneratorTagContains(html, value) ==
    \E i \in 1..Len(html), k \in 1..Len(html) :
        /\ MetaTagSpan(html, Lower(html), i, k)
        /\ \E p \in GeneratorNamePositions(html, Lower(html)) : i < p /\ p < k
        /\ \E c \in ContentPositions(html, Lower(html)) :
              /\ i < c /\ c < k
              /\ Contains(Lower(CapturedContent(html, c)), Lower(value))

\* a meta pattern, selected by its type alone, whose name mentions generator
IsGeneratorMetaPattern ==
    /\ "type" \in DOMAIN claimed_pattern
    /\ claimed_pattern.type = [str |-> "meta"]
    /\ "location" \notin DOMAIN claimed_pattern
    /\ "name" \in DOMAIN claimed_pattern
    /\ "str" \in DOMAIN claimed_pattern.name
    /\ Contains(Lower(claimed_pattern.name.str), "generator")

\* C26: a meta pattern whose name mentions 'generator' is verified if and
\* only if the HTML contains a generator meta tag whose content contains
\* the pattern's value, compared case-insensitively.
C26_GeneratorVerifiedIffTagHasValue ==
    (pc = "returned" /\ IsGeneratorMetaPattern) =>
        (verify_outcome.verified <=>
            GeneratorTagContains(html_of(evidence), pattern_value_of(claimed_pattern)))

(***************************************************************************)
(* Key patterns of learn-shape records                                     *)
(***************************************************************************)

\* the key patterns of a learn-shape file that occur nowhere in the
\* evidence the file carries
AbsentKeyPatterns(file) ==
    {name \in SeqToSet(Get(file.data.analysis, "keyPatterns", <<>>)) :
        ~Contains(json_dumps_data(data_section(file.data)), name)}

\* C27: a key pattern of a learn-shape record that occurs nowhere in the
\* record's evidence is recorded as a false positive, as a structured
\* pattern whose value is absent from the evidence is.
C27_AbsentKeyPatternIsFalsePositive ==
    (/\ pc = "analyzed"
     /\ data_files # <<>>
     /\ is_learn_shape(data_files[1].data)) =>
        \A name \in AbsentKeyPatterns(data_files[1]) :
            \E i \in DOMAIN accuracy_results.false_positives :
                /\ accuracy_results.false_positives[i].pattern = [str |-> name]
                /\ accuracy_results.false_positives[i].url = "u1"

(***************************************************************************)
(* The javascript, css and structure matchers                              *)
(***************************************************************************)

\* the pattern reaches the matcher of the given type: the type selects it
\* and there is no location text
TypedWithoutLocation(pattern_type) ==
    /\ "type" \in DOMAIN claimed_pattern
    /\ claimed_pattern.type = [str |-> pattern_type]
    /\ "location" \notin DOMAIN claimed_pattern

\* the value is a substring of some string of the list evidence.data[kind][part]
InResource(kind, part) ==
    /\ "data" \in DOMAIN evidence
    /\ kind \in DOMAIN evidence.data
    /\ part \in DOMAIN evidence.data[kind]
    /\ \E i \in 1..Len(evidence.data[kind][part]) :
          Contains(evidence.data[kind][part][i], pattern_value_of(claimed_pattern))

\* the value is a substring of the whole HTML, the HTML of a bundle that
\* has none being the empty text
InHtml ==
    IF "data" \in DOMAIN evidence /\ "html" \in DOMAIN evidence.data
    THEN Contains(evidence.data.html, pattern_value_of(claimed_pattern))
    ELSE pattern_value_of(claimed_pattern) = ""

\* the value is a substring of a collected URL
InCollectedUrls ==
    /\ "data" \in DOMAIN evidence
    /\ "urls" \in DOMAIN evidence.data
    /\ \E i \in 1..Len(evidence.data.urls) :
          Contains(evidence.data.urls[i], pattern_value_of(claimed_pattern))

\* C28: a javascript (css) pattern is verified if and only if its value is
\* a substring of an inline script (style), of an external script
\* (stylesheet) URL or of the whole HTML; a structure pattern if and only
\* if its value is a substring of a collected URL, an external script URL
\* or an external stylesheet URL, the HTML not being searched.
C28_ResourceMatchersSearchTheirLists ==
    pc = "returned" =>
        /\ TypedWithoutLocation("javascript") =>
             (verify_outcome.verified <=>
                 \/ InResource("javascript", "inline")
                 \/ InResource("javascript", "external")
                 \/ InHtml)
        /\ TypedWithoutLocation("css") =>
             (verify_outcome.verified <=>
                 \/ InResource("css", "inline")
                 \/ InResource("css", "external")
                 \/ InHtml)
        /\ TypedWithoutLocation("structure") =>
             (verify_outcome.verified <=>
                 \/ InCollectedUrls
                 \/ InResource("javascript", "external")
                 \/ InResource("css", "external"))

\* a structure pattern whose value is in the HTML only has been refused
C28_Witness ==
    /\ pc = "returned"
    /\ TypedWithoutLocation("structure")
    /\ InHtml /\ ~InCollectedUrls
    /\ ~InResource("javascript", "external") /\ ~InResource("css", "external")
    /\ ~verify_outcome.verified

(***************************************************************************)
(* Sites known from learn-shape records only                               *)
(***************************************************************************)

\* the runs of a site that the report scores
ScoredRuns(u) == runs_for_site(url_results.runs[u], focus_phase2)

\* the occurrences of the scored runs of a site
ScoredOccurrences(u) ==
    UNION {SeqToSet(ScoredRuns(u)[i].patterns) : i \in DOMAIN ScoredRuns(u)}

\* at least 2 scored runs, at least one occurrence, and every occurrence
\* carries a name and nothing else
LearnOnlySite(u) ==
    /\ Len(ScoredRuns(u)) >= 2
    /\ ScoredOccurrences(u) # {}
    /\ \A p \in ScoredOccurrences(u) : DOMAIN p = {"name"}

\* C29: the occurrences of learn-shape records collapse to one identity
\* key: a site with at least 2 learn-shape runs and at least one pattern
\* has exactly 1 distinct identity, and its score is 100 if every
\* occurrence of every run has the same name and 0 otherwise.
C29_LearnSiteScoreIsAllOrNothing ==
    pc = "reported" =>
        \A u \in DOMAIN url_results.runs :
            LearnOnlySite(u) =>
                /\ Cardinality({normalize_pattern_for_comparison(p) :
                                   p \in ScoredOccurrences(u)}) = 1
                /\ naming_consistency(ScoredRuns(u)).total_patterns = 1
                /\ \E i \in DOMAIN report.site_results :
                      /\ report.site_results[i].url = u
                      /\ report.site_results[i].consistency_score =
                           IF Cardinality({p.name : p \in ScoredOccurrences(u)}) = 1
                           THEN Rat(100, 1) ELSE Rat(0, 1)

\* a site whose two learn-shape runs report the same two names is scored 0
C29_Witness ==
    /\ pc = "reported"
    /\ \E u \in DOMAIN url_results.runs :
         /\ LearnOnlySite(u)
         /\ \A i \in DOMAIN ScoredRuns(u) :
               {ScoredRuns(u)[i].patterns[k].name :
                   k \in DOMAIN ScoredRuns(u)[i].patterns} = {"n1", "n2"}
         /\ \E i \in DOMAIN report.site_results :
               /\ report.site_results[i].url = u
               /\ report.site_results[i].consistency_score = Rat(0, 1)

(***************************************************************************)
(* Sites whose runs report nothing                                         *)
(***************************************************************************)

\* at least 2 scored runs, none of which reports an occurrence
EmptySite(u) == Len(ScoredRuns(u)) >= 2 /\ ScoredOccurrences(u) = {}

\* the position of a site in report.site_results, 0 if it is not there
SitePosition(u) ==
    IF \E i \in DOMAIN report.site_results : report.site_results[i].url = u
    THEN CHOOSE i \in DOMAIN report.site_results : report.site_results[i].url = u
    ELSE 0

\* C30: a site with at least 2 runs none of which reports an occurrence is
\* scored 100 rather than skipped: calculate_naming_consistency returns 100
\* with no inconsistent identity, and the report counts the site in
\* sites_analyzed and in the average, minimum and maximum consistency.
C30_EmptySiteScores100 ==
    pc = "reported" =>
        \A u \in DOMAIN url_results.runs :
            EmptySite(u) =>
                /\ naming_consistency(ScoredRuns(u)).consistency_score = Rat(100, 1)
                /\ naming_consistency(ScoredRuns(u)).inconsistent_patterns.order = <<>>
                /\ SitePosition(u) # 0
                /\ report.site_results[SitePosition(u)].consistency_score = Rat(100, 1)
                /\ report.site_results[SitePosition(u)].inconsistent_patterns_count = 0
                /\ report.overall_metrics.sites_analyzed = Cardinality(ScoredUrls)
                /\ report.overall_metrics.sites_analyzed = Len(report.site_results)
                /\ report.overall_metrics.average_consistency
                     = RatDivInt(RatSum(SiteScores), Len(SiteScores))
                /\ report.overall_metrics.max_consistency = Rat(100, 1)
                /\ \A i \in DOMAIN SiteScores :
                      RatLeq(report.overall_metrics.min_consistency, SiteScores[i])

\* a site without occurrences is the one site scored: it is counted and
\* its 100 is the average, so that the verdict is not INSUFFICIENT_DATA
C30_Witness ==
    /\ pc = "reported"
    /\ \E u \in DOMAIN url_results.runs : EmptySite(u) /\ SitePosition(u) # 0
    /\ report.overall_metrics.sites_analyzed = 1
    /\ report.overall_metrics.average_consistency = Rat(100, 1)
    /\ report.test_result = "EXCELLENT"
    /\ exit_code = 0

====
